---- MODULE Spec2Model ----
(***************************************************************************)
(* Change detection, catalog merge and polling loop of the brochure        *)
(* generator (scripts/automated_polling_service.py, server.py).            *)
(***************************************************************************)
EXTENDS Integers, Sequences, FiniteSets, TLC

\* ------------------------------------------------------------------ bounds
\* Largest number of data rows of a snapshot handed to the detector alone.
MaxDetectRows == 3
\* Largest number of data rows of a snapshot the polling service fetches.
MaxRows == 2
\* Number of fetches of the spreadsheet in one run of the server.
MaxPolls == 2
\* Number of AutomatedPollingService objects the server creates in one run.
MaxServices == 2
\* Largest number of products of a catalog the writers are called on alone.
MaxCatalog == 2
\* Number of calls of the catalog writers made on their own in one run.
MaxCalls == 2
\* Number of websockets that connect to the server in one run.
MaxSockets == 3
\* Number of run_pipeline calls on one MasterAutomation object.
MaxRuns == 2
\* Number of distinct modification times of the files of the data directory.
MaxAge == 2
\* Number of categories of the enhanced file and of products of a category.
MaxCategory == 2
\* Number of synchronize calls.
MaxSynchronize == 1

VARIABLES
  d_metadata,       \* ChangeDetector.metadata of a detector used on its own
  d_previous,       \* the snapshot of its previous detect_changes call
  d_current,        \* the snapshot of its latest detect_changes call
  d_changes,        \* the Change Set its latest call returned
  products_file,    \* data/products.json
  backup_file,      \* the latest data/backups/products_pre_update_*.json
  metadata_file,    \* data/polling_metadata.json
  polling_service,  \* server.polling_service (0 is None)
  is_running,       \* AutomatedPollingService.is_running, per service
  pc,               \* where each service's start_polling task stands
  sleep,            \* the seconds of the asyncio.sleep a task is suspended in
  stats,            \* AutomatedPollingService.stats, per service
  metadata,         \* change_detector.metadata, per service
  cycle,            \* the locals of each service's latest _poll_and_process
  fetches,          \* number of get_sheet_data calls made
  call,             \* the latest call of a catalog writer made on its own
  spreadsheet,      \* the values of the "All Products" sheet
  sync,             \* the latest GoogleSheetsSync / batch_update_cells call
  active_connections, \* manager.active_connections (server.py)
  broken,           \* the websockets whose client has gone away
  broadcasting,     \* the locals of the latest manager.broadcast call
  pipeline_stats,   \* MasterAutomation.pipeline_stats and its latest run
  data_dir,         \* the *.json files of the data directory: name -> file
  cleanup_stats,    \* what the latest JSONCleanupUtility.cleanup returned
  synchronized      \* the latest JSONSynchronizer.synchronize and what it wrote

detect_vars == <<d_metadata, d_previous, d_current, d_changes>>
service_vars == <<products_file, backup_file, metadata_file, polling_service, is_running, pc,
                  sleep, stats, metadata, cycle, fetches>>
script_vars == <<call, spreadsheet, sync>>
batch_vars == <<pipeline_stats, data_dir, cleanup_stats, synchronized>>
tool_vars == <<active_connections, broken, broadcasting, pipeline_stats,
               data_dir, cleanup_stats, synchronized>>
vars == <<d_metadata, d_previous, d_current, d_changes,
          products_file, backup_file, metadata_file, polling_service,
          is_running, pc, sleep, stats, metadata, cycle, fetches,
          call, spreadsheet, sync,
          active_connections, broken, broadcasting, pipeline_stats,
          data_dir, cleanup_stats, synchronized>>

\* --------------------------------------------------------- program constants
\* self.poll_interval = 300
poll_interval == 300
\* await asyncio.sleep(60)
retry_delay == 60

\* ------------------------------------------------------------ Python values
\* None, as a value comparable with the digests it is compared with.
None == <<"None">>

\* dict.get(key, default)
Get(d, k, default) == IF k \in DOMAIN d THEN d[k] ELSE default

\* The empty dict {}.
EmptyDict == <<>>

\* str(i) for a row number.
Str(i) == ToString(i)

\* int(s) for a key produced by Str.
int_of(s) == CHOOSE n \in 0..(MaxDetectRows + MaxRows + 1) : Str(n) = s

\* json.dumps(value, sort_keys=True) of a list of strings or of a list of such
\* lists: an injective serialisation, kept as the tagged value.
json_dumps(value) == <<"json", value>>

\* hashlib.md5(text).hexdigest(), collision free on the texts of the model.
md5_hexdigest(text) == <<"md5", text>>

\* The empty string, as a digest.
EmptyDigest == <<>>

\* seq[start:] of Python (start is 0-based).
SliceFrom(seq, start) ==
  IF start >= Len(seq) THEN <<>> ELSE SubSeq(seq, start + 1, Len(seq))

\* ---------------------------------------------------------- ChangeDetector
\* The metadata _load_metadata returns when the file does not exist.
default_metadata ==
  [last_sync |-> "None", row_count |-> 0, data_hash |-> None,
   last_row_processed |-> 0, sheet_fingerprint |-> EmptyDict]

\* The metadata _load_metadata returns when reading the file fails.
error_metadata == EmptyDict

row_hashes_of(sheets_data) ==
  IF Len(sheets_data) > 1
    THEN [k \in {Str(i) : i \in 1..(Len(sheets_data) - 1)} |->
            md5_hexdigest(json_dumps(sheets_data[int_of(k) + 1]))]
    ELSE EmptyDict

create_data_fingerprint(sheets_data) ==
  IF sheets_data = <<>>
    THEN [row_count |-> 0, data_hash |-> EmptyDigest, row_hashes |-> EmptyDict]
    ELSE [row_count |-> Len(sheets_data) - 1,
          data_hash |-> md5_hexdigest(json_dumps(sheets_data)),
          row_hashes |-> row_hashes_of(sheets_data),
          timestamp |-> "now"]

\* The keys of a row_hashes dict in iteration (insertion) order: "1", "2", ...
dict_keys(row_hashes) == [i \in 1..Cardinality(DOMAIN row_hashes) |-> Str(i)]

\* The variant of new_rows_of that forgets the header row in the slice.
new_rows_of_no_header(previous_row_count, current_data) ==
  SliceFrom(current_data, previous_row_count)

\* new_rows: the rows beyond the previous row count.
new_rows_of(previous_row_count, current_data) ==
  LET new_row_start == previous_row_count + 1
  IN SliceFrom(current_data, new_row_start)

\* The variant of modified_rows_of that reads the row one place too early.
RECURSIVE modified_rows_of_shifted(_, _, _, _)
modified_rows_of_shifted(keys, current_row_hashes, previous_row_hashes, current_data) ==
  IF keys = <<>> THEN <<>>
  ELSE LET row_index == Head(keys)
           rest == modified_rows_of_shifted(Tail(keys), current_row_hashes,
                                            previous_row_hashes, current_data)
           row_data_index == int_of(row_index)
       IN IF /\ row_index \in DOMAIN previous_row_hashes
             /\ current_row_hashes[row_index] /= previous_row_hashes[row_index]
             /\ row_data_index <= Len(current_data) - 1
            THEN <<[row_index |-> row_data_index,
                    row_data |-> current_data[row_data_index],
                    previous_hash |-> previous_row_hashes[row_index],
                    current_hash |-> current_row_hashes[row_index]]>> \o rest
            ELSE rest

RECURSIVE modified_rows_of(_, _, _, _)
modified_rows_of(keys, current_row_hashes, previous_row_hashes, current_data) ==
  IF keys = <<>> THEN <<>>
  ELSE LET row_index == Head(keys)
           rest == modified_rows_of(Tail(keys), current_row_hashes,
                                    previous_row_hashes, current_data)
           row_data_index == int_of(row_index)
       IN IF /\ row_index \in DOMAIN previous_row_hashes
             /\ current_row_hashes[row_index] /= previous_row_hashes[row_index]
             /\ row_data_index <= Len(current_data) - 1
            THEN <<[row_index |-> row_data_index,
                    row_data |-> current_data[row_data_index + 1],
                    previous_hash |-> previous_row_hashes[row_index],
                    current_hash |-> current_row_hashes[row_index]]>> \o rest
            ELSE rest

\* The variant of deleted_rows_of that walks the current keys.
RECURSIVE deleted_rows_of_current(_, _, _)
deleted_rows_of_current(keys, current_row_hashes, previous_row_hashes) ==
  IF keys = <<>> \/ Head(keys) \notin DOMAIN current_row_hashes THEN <<>>
  ELSE LET row_index == Head(keys)
           rest == deleted_rows_of_current(Tail(keys), current_row_hashes,
                                           previous_row_hashes)
       IN IF row_index \notin DOMAIN previous_row_hashes
            THEN <<[row_index |-> int_of(row_index),
                    previous_hash |-> current_row_hashes[row_index]]>> \o rest
            ELSE rest

RECURSIVE deleted_rows_of(_, _, _)
deleted_rows_of(keys, current_row_hashes, previous_row_hashes) ==
  IF keys = <<>> THEN <<>>
  ELSE LET row_index == Head(keys)
           rest == deleted_rows_of(Tail(keys), current_row_hashes, previous_row_hashes)
       IN IF row_index \notin DOMAIN current_row_hashes
            THEN <<[row_index |-> int_of(row_index),
                    previous_hash |-> previous_row_hashes[row_index]]>> \o rest
            ELSE rest

\* The variant of change_set that counts the modified rows among the new ones.
change_set_miscounted(has_changes, new_rows, modified_rows, deleted_rows, total_rows, previous_rows) ==
  [has_changes |-> has_changes,
   new_rows |-> new_rows,
   modified_rows |-> modified_rows,
   deleted_rows |-> deleted_rows,
   new_row_count |-> Len(new_rows) + Len(modified_rows),
   modified_row_count |-> Len(modified_rows),
   deleted_row_count |-> Len(deleted_rows),
   total_rows |-> total_rows,
   previous_rows |-> previous_rows]

\* The changes dict, from the lists found.
change_set(has_changes, new_rows, modified_rows, deleted_rows, total_rows, previous_rows) ==
  [has_changes |-> has_changes,
   new_rows |-> new_rows,
   modified_rows |-> modified_rows,
   deleted_rows |-> deleted_rows,
   new_row_count |-> Len(new_rows),
   modified_row_count |-> Len(modified_rows),
   deleted_row_count |-> Len(deleted_rows),
   total_rows |-> total_rows,
   previous_rows |-> previous_rows]

\* The body of detect_changes from the two fingerprints.
changes_from(previous_fingerprint, current_fingerprint, current_data) ==
  IF current_fingerprint.data_hash /= Get(previous_fingerprint, "data_hash", None)
    THEN change_set(TRUE,
           IF current_fingerprint.row_count > Get(previous_fingerprint, "row_count", 0)
             THEN new_rows_of(Get(previous_fingerprint, "row_count", 0), current_data)
             ELSE <<>>,
           modified_rows_of(dict_keys(current_fingerprint.row_hashes),
             current_fingerprint.row_hashes,
             Get(previous_fingerprint, "row_hashes", EmptyDict), current_data),
           deleted_rows_of(dict_keys(Get(previous_fingerprint, "row_hashes", EmptyDict)),
             current_fingerprint.row_hashes,
             Get(previous_fingerprint, "row_hashes", EmptyDict)),
           current_fingerprint.row_count,
           Get(previous_fingerprint, "row_count", 0))
    ELSE change_set(FALSE, <<>>, <<>>, <<>>, current_fingerprint.row_count,
                    Get(previous_fingerprint, "row_count", 0))

\* The variant of changes_of that takes the current fingerprint for the
\* previous one when the metadata holds none.
changes_of_unset(md, current_data) ==
  changes_from(Get(md, "sheet_fingerprint", create_data_fingerprint(current_data)),
               create_data_fingerprint(current_data), current_data)

\* The Change Set detect_changes returns for the metadata md.
changes_of(md, current_data) ==
  changes_from(Get(md, "sheet_fingerprint", EmptyDict),
               create_data_fingerprint(current_data), current_data)

\* The variant of metadata_after that keeps the stored fingerprint.
metadata_after_stale(md, current_data) ==
  [k \in DOMAIN md \cup {"last_sync"} |->
     IF k = "last_sync" THEN "now" ELSE md[k]]

\* self.metadata after detect_changes: the fingerprint and last_sync are replaced.
metadata_after(md, current_data) ==
  [k \in DOMAIN md \cup {"sheet_fingerprint", "last_sync"} |->
     IF k = "sheet_fingerprint" THEN create_data_fingerprint(current_data)
     ELSE IF k = "last_sync" THEN "now"
     ELSE md[k]]

\* detect_changes: the Change Set and the metadata it leaves.
detect_changes(md, current_data) ==
  [changes |-> changes_of(md, current_data),
   metadata |-> metadata_after(md, current_data)]

\* ------------------------------------------------------------ DataProcessor
\* str.strip() on the cell texts of the model.
Strip(text) ==
  CASE text = " " -> ""
    [] text = " M1 " -> "M1"
    [] OTHER -> text

\* str.lower() on the header names of the model.
Lower(text) ==
  CASE text = "Model Number" -> "model number"
    [] text = "Product Name" -> "product name"
    [] text = "PRODUCT NAME" -> "product name"
    [] text = "Category" -> "category"
    [] text = "Specifications" -> "specifications"
    [] text = "Features" -> "features"
    [] text = "Hero Image" -> "hero image"
    [] text = "Secondary Image" -> "secondary image"
    [] OTHER -> text

Range(seq) == {seq[i] : i \in 1..Len(seq)}

Last(S) == CHOOSE i \in S : \A j \in S : j <= i

\* The row padded with '' or truncated to the length of the headers.
fit_row(row, headers) ==
  IF Len(row) < Len(headers)
    THEN row \o [i \in 1..(Len(headers) - Len(row)) |-> ""]
    ELSE IF Len(row) > Len(headers) THEN SubSeq(row, 1, Len(headers))
    ELSE row

\* row_data: header -> cell, a later column of the same name winning.
row_data_of(row, headers) ==
  [h \in Range(headers) |->
     fit_row(row, headers)[Last({i \in 1..Len(headers) : headers[i] = h})]]

\* header_map: lower-cased header -> header, the later header winning.
header_map_of(headers) ==
  [l \in {Lower(h) : h \in Range(headers)} |->
     headers[Last({i \in 1..Len(headers) : Lower(headers[i]) = l})]]

RECURSIVE get_field(_, _, _)
get_field(possible_names, row_data, header_map) ==
  IF possible_names = <<>> THEN ""
  ELSE LET name == Head(possible_names)
       IN IF name \in DOMAIN row_data THEN Strip(row_data[name])
          ELSE IF Lower(name) \in DOMAIN header_map
            THEN Strip(row_data[header_map[Lower(name)]])
          ELSE get_field(Tail(possible_names), row_data, header_map)

\* _create_product_from_row: <<product>>, or <<>> for None.
create_product_from_row(row, headers) ==
  LET row_data == row_data_of(row, headers)
      header_map == header_map_of(headers)
      name == get_field(<<"Product Name">>, row_data, header_map)
  IN IF name = "" THEN <<>>
     ELSE <<[name |-> name,
             model |-> get_field(<<"Model Number">>, row_data, header_map),
             category |-> get_field(<<"Category">>, row_data, header_map),
             specifications |-> get_field(<<"Specifications">>, row_data, header_map),
             features |-> get_field(<<"Features">>, row_data, header_map),
             hero_image |-> get_field(<<"Hero Image">>, row_data, header_map),
             secondary_image |-> get_field(<<"Secondary Image">>, row_data, header_map)]>>

\* len(row) raises TypeError for a row that is not a list (None).
conversion_raises(row) == row = None

\* The variant of process_new_rows without the try in its loop: the first row
\* whose conversion raises ends the batch.
RECURSIVE process_new_rows_abort(_, _)
process_new_rows_abort(new_rows, headers) ==
  IF new_rows = <<>> \/ conversion_raises(Head(new_rows)) THEN <<>>
  ELSE create_product_from_row(Head(new_rows), headers)
         \o process_new_rows_abort(Tail(new_rows), headers)

\* process_new_rows: the except branch of the loop skips a row whose
\* conversion raised.
RECURSIVE process_new_rows(_, _)
process_new_rows(new_rows, headers) ==
  IF new_rows = <<>> THEN <<>>
  ELSE (IF conversion_raises(Head(new_rows)) THEN <<>>
        ELSE create_product_from_row(Head(new_rows), headers))
         \o process_new_rows(Tail(new_rows), headers)

\* product["_modification_info"] = {...}
with_modification_info(product, modified_row) ==
  [k \in DOMAIN product \cup {"_modification_info"} |->
     IF k = "_modification_info"
       THEN [row_index |-> modified_row.row_index,
             previous_hash |-> modified_row.previous_hash,
             current_hash |-> modified_row.current_hash,
             modified_at |-> "now"]
       ELSE product[k]]

RECURSIVE process_modified_rows(_, _)
process_modified_rows(modified_rows, headers) ==
  IF modified_rows = <<>> THEN <<>>
  ELSE LET product == IF conversion_raises(Head(modified_rows).row_data) THEN <<>>
                       ELSE create_product_from_row(Head(modified_rows).row_data, headers)
           rest == process_modified_rows(Tail(modified_rows), headers)
       IN IF product = <<>> THEN rest
          ELSE <<with_modification_info(product[1], Head(modified_rows))>> \o rest

\* k.startswith("_") on the keys of a product.
startswith_underscore(k) == k \in {"_modification_info"}

\* The variant of clean_product_of that keeps every key.
clean_product_of_raw(modified_product) == modified_product

\* {k: v for k, v in modified_product.items() if not k.startswith("_")}
clean_product_of(modified_product) ==
  [k \in {x \in DOMAIN modified_product : ~startswith_underscore(x)} |->
     modified_product[k]]

\* The products that are matches of a model number, by position.
matches_of(products, product_model) ==
  {i \in 1..Len(products) : Get(products[i], "model", "") = product_model}

\* _update_modified_products: the product list after the updates.
RECURSIVE update_modified_products(_, _)
update_modified_products(products, modified_products) ==
  IF modified_products = <<>> THEN products
  ELSE LET modified_product == Head(modified_products)
           product_model == Get(modified_product, "model", "")
           found == matches_of(products, product_model)
           first == CHOOSE i \in found : \A j \in found : i <= j
           updated ==
             IF product_model = "" \/ found = {}
               THEN products
               ELSE [products EXCEPT ![first] = clean_product_of(modified_product)]
       IN update_modified_products(updated, Tail(modified_products))

\* _remove_deleted_products: the product list without the products whose
\* model number is not in the sheet.
remove_deleted_products(products, current_sheet_models) ==
  LET current_models == Range(current_sheet_models)
      gone(product) ==
        LET product_model == Get(product, "model", "")
        IN product_model /= "" /\ product_model \notin current_models
  IN SelectSeq(products, LAMBDA product : ~gone(product))

\* metadata.update({...}) of _update_metadata_stats.
metadata_updated(old, products, categories) ==
  [k \in DOMAIN old \cup {"total_products", "categories", "categories_count",
                          "last_synchronized", "source"} |->
     CASE k = "total_products" -> Len(products)
       [] k = "categories" -> categories
       [] k = "categories_count" -> Cardinality(categories)
       [] k = "last_synchronized" -> "now"
       [] k = "source" -> "google_sheets_import"
       [] OTHER -> old[k]]

\* The variant of categories_of that keeps the empty category.
categories_of_all(products) ==
  {Get(products[i], "category", "") : i \in 1..Len(products)}

\* The non-empty categories of the products.
categories_of(products) ==
  {products[i].category :
     i \in {j \in 1..Len(products) : Get(products[j], "category", "") /= ""}}

\* _update_metadata_stats; the sorted list of categories is kept as the set.
update_metadata_stats(products_data) ==
  [metadata |-> metadata_updated(Get(products_data, "metadata", EmptyDict),
                                 products_data.products,
                                 categories_of(products_data.products)),
   products |-> products_data.products]

\* The catalog _load_products returns when the file cannot be read.
default_products == [metadata |-> [total_products |-> 0], products |-> <<>>]

\* A file that does not exist.
NoFile == <<>>

load_products(file) == IF DOMAIN file = {} THEN default_products ELSE file

\* products_data as _save_products writes it: last_synchronized and
\* total_products are set again before the dump.
written_products(products_data) ==
  [products_data EXCEPT
     !.metadata = [k \in DOMAIN @ \cup {"last_synchronized", "total_products"} |->
                     IF k = "last_synchronized" THEN "now"
                     ELSE IF k = "total_products" THEN Len(products_data.products)
                     ELSE @[k]]]

\* The variant of save_products that writes nothing and reports success.
save_products_silent(file, products_data, save_result) ==
  [raised |-> FALSE,
   backup |-> IF save_result = "error" THEN <<>> ELSE <<load_products(file)>>,
   file |-> IF save_result = "ok" THEN written_products(products_data) ELSE file]

\* _save_products: the file afterwards, the backup it wrote (<<>> when it
\* wrote none) and whether the error was raised. save_result is what the file
\* system does: "ok", "error" when the backup cannot be opened for writing,
\* "write_error" when the backup is written and products.json cannot be opened
\* for writing.
save_products(file, products_data, save_result) ==
  [raised |-> save_result /= "ok",
   backup |-> IF save_result = "error" THEN <<>> ELSE <<load_products(file)>>,
   file |-> IF save_result = "ok" THEN written_products(products_data) ELSE file]

\* What update_catalog returns after _save_products: its result, whether an
\* exception was caught (line 383) and the file it leaves.
catalog_result(saved) ==
  [success |-> ~saved.raised, raised |-> saved.raised, file |-> saved.file,
   backup |-> saved.backup]

\* The variant of update_catalog that skips the removal of deleted products.
update_catalog_no_removal(file, new_products, modified_products, current_sheet_models, save_result) ==
  IF new_products = <<>> /\ modified_products = <<>> /\ current_sheet_models = <<>>
    THEN [success |-> FALSE, raised |-> FALSE, file |-> file, backup |-> <<>>]
    ELSE catalog_result(save_products(file,
           update_metadata_stats(
             [load_products(file) EXCEPT !.products =
                update_modified_products(@ \o new_products, modified_products)]),
           save_result))

\* update_catalog: new products appended, modified products replaced, products
\* no longer in the sheet removed, the statistics recomputed, the file saved.
update_catalog(file, new_products, modified_products, current_sheet_models, save_result) ==
  IF new_products = <<>> /\ modified_products = <<>> /\ current_sheet_models = <<>>
    THEN [success |-> FALSE, raised |-> FALSE, file |-> file, backup |-> <<>>]
    ELSE catalog_result(save_products(file,
           update_metadata_stats(
             [load_products(file) EXCEPT !.products =
                IF current_sheet_models /= <<>>
                  THEN remove_deleted_products(
                         update_modified_products(@ \o new_products, modified_products),
                         current_sheet_models)
                  ELSE update_modified_products(@ \o new_products, modified_products)]),
           save_result))

\* ------------------------------------------------- the detector on its own
\* All sequences over S of length at most n.
SeqsUpTo(S, n) == UNION {[1..k -> S] : k \in 0..n}

DetectHeaders == {<<"Model Number", "Product Name">>, <<"Model Number", "Name">>}
DetectRows == {<<"M1", "A">>, <<"M2">>}

\* The snapshots handed to detect_changes: _poll_and_process returns before
\* the call when the fetched list is empty, so a snapshot has its header row.
DetectSnapshots ==
  {<<h>> \o rows : h \in DetectHeaders, rows \in SeqsUpTo(DetectRows, MaxDetectRows)}

no_changes ==
  [has_changes |-> FALSE, new_rows |-> <<>>, modified_rows |-> <<>>,
   deleted_rows |-> <<>>, new_row_count |-> 0, modified_row_count |-> 0,
   deleted_row_count |-> 0, total_rows |-> 0, previous_rows |-> 0]

\* self.stats as the constructor sets it.
initial_stats ==
  [last_check |-> "None", total_checks |-> 0, products_added |-> 0,
   products_modified |-> 0, products_deleted |-> 0, errors |-> 0]

\* The locals of a cycle, before the first cycle.
no_cycle ==
  [n |-> 0, outcome |-> "none", caught |-> FALSE, previous_caught |-> FALSE,
   sheets_data |-> <<>>, new_products |-> <<>>, modified_products |-> <<>>,
   broadcast |-> <<>>]

\* No call of a catalog writer on its own yet.
no_call ==
  [n |-> 0, op |-> "none", before |-> <<>>, new_products |-> <<>>,
   modified_products |-> <<>>, save_result |-> "none", success |-> FALSE,
   permuted |-> <<>>, headers |-> <<>>, rows |-> <<>>]

\* No write-back call yet.
no_sync == [op |-> "none", updates |-> <<>>, applied |-> FALSE, result |-> FALSE]

\* No manager.broadcast call yet. index is the position of the list iterator
\* of the for loop (the number of elements it has handed out).
no_broadcast == [pc |-> "idle", index |-> 0, at_start |-> <<>>, delivered |-> {}]

\* pipeline_stats as the constructor of MasterAutomation sets it (errors is
\* the length of the list), with what the latest run_pipeline did: the steps
\* it started, the dry_run flag it handed to step 4, what it returned, the
\* number of pipeline reports written, and what the steps of that run did and
\* the flags it was called with.
no_pipeline ==
  [runs |-> 0, started |-> <<>>, dry_run |-> FALSE, returned |-> FALSE,
   success |-> FALSE, success_set |-> FALSE, errors |-> 0,
   files_synchronized |-> 0, validation_errors |-> 0, reports |-> 0,
   outcomes |-> <<>>, skip_cleanup |-> FALSE, skip_validation |-> FALSE]

\* cleanup has not been called. before is the directory it was called on,
\* archived the names it moved to the archive directory.
no_cleanup ==
  [runs |-> 0, dry_run |-> FALSE, files_removed |-> 0, files_archived |-> 0,
   errors |-> 0, before |-> <<>>, archived |-> {}]

\* synchronize has not been called. enhanced_data is what it loaded,
\* products_json the products of products.json once written is TRUE,
\* validation the outcome of validate_synchronization if it was called.
no_synchronize ==
  [runs |-> 0, returned |-> FALSE, enhanced_data |-> <<>>, written |-> FALSE,
   products_json |-> <<>>, validation |-> "none"]

\* The server has no websocket and no script has been run.
InitTools ==
  /\ active_connections = <<>>
  /\ broken = {}
  /\ broadcasting = no_broadcast
  /\ pipeline_stats = no_pipeline
  /\ data_dir = <<>>
  /\ cleanup_stats = no_cleanup
  /\ synchronized = no_synchronize

\* The scripts have not been run.
InitScripts ==
  /\ call = no_call
  /\ spreadsheet = <<>>
  /\ sync = no_sync
  /\ InitTools

\* No service has been created.
InitTasks ==
  /\ polling_service = 0
  /\ is_running = [s \in 1..MaxServices |-> FALSE]
  /\ pc = [s \in 1..MaxServices |-> "none"]
  /\ sleep = [s \in 1..MaxServices |-> 0]
  /\ stats = [s \in 1..MaxServices |-> initial_stats]
  /\ metadata = [s \in 1..MaxServices |-> EmptyDict]
  /\ cycle = [s \in 1..MaxServices |-> no_cycle]
  /\ fetches = 0

InitService ==
  /\ products_file = NoFile
  /\ backup_file = NoFile
  /\ metadata_file = NoFile
  /\ InitTasks

\* A ChangeDetector is constructed: no metadata file, or an unreadable one.
InitDetect ==
  /\ d_metadata \in {default_metadata, error_metadata}
  /\ d_previous = <<>>
  /\ d_current = <<>>
  /\ d_changes = no_changes
  /\ InitService
  /\ InitScripts

\* One call detect_changes(current_data).
DetectCall(current_data) ==
  /\ d_metadata' = detect_changes(d_metadata, current_data).metadata
  /\ d_changes' = detect_changes(d_metadata, current_data).changes
  /\ d_previous' = d_current
  /\ d_current' = current_data
  /\ UNCHANGED service_vars
  /\ UNCHANGED script_vars
  /\ UNCHANGED tool_vars

NextDetect == \E current_data \in DetectSnapshots : DetectCall(current_data)

SpecDetect == InitDetect /\ [][NextDetect]_vars

\* -------------------------------------------------- AutomatedPollingService
Headers == <<"Model Number", "Product Name", "Category">>

\* The data rows a fetched sheet is made of; the API drops trailing empty cells.
SheetRows == {<<"M1", "A", "C1">>, <<"M2", "A", "C1">>, <<"M2", " ">>}

Snapshots == {<<Headers>> \o rows : rows \in SeqsUpTo(SheetRows, MaxRows)}

\* What get_sheet_data does: it raises, or returns the values of the sheet
\* (no values at all for an empty sheet).
Fetches ==
  {[status |-> "error", values |-> <<>>]}
    \cup {[status |-> "ok", values |-> v] : v \in {<<>>} \cup Snapshots}

SaveResults == {"ok", "error"}

\* _load_metadata: the file's content, the default when there is no file, {}
\* when reading fails.
load_metadata(file, load_result) ==
  IF DOMAIN file = {} THEN default_metadata
  ELSE IF load_result = "ok" THEN file
  ELSE error_metadata

\* row[0].strip() if row[0] else "", for the rows that have a cell.
RECURSIVE current_sheet_models_of(_)
current_sheet_models_of(rows) ==
  IF rows = <<>> THEN <<>>
  ELSE LET row == Head(rows)
           model == IF Len(row) > 0 /\ row[1] /= "" THEN Strip(row[1]) ELSE ""
       IN (IF model /= "" THEN <<model>> ELSE <<>>)
            \o current_sheet_models_of(Tail(rows))

\* The new_products or modified_products message of notify_product_changes
\* (server.py); its timestamp is left out.
change_notification(type, products) ==
  [type |-> type,
   count |-> Len(products),
   products |-> [i \in 1..Len(products) |->
                   [name |-> products[i].name,
                    model |-> Get(products[i], "model", None),
                    category |-> Get(products[i], "category", None)]]]

\* The deleted_products message of notify_product_changes.
deleted_notification(products) ==
  [type |-> "deleted_products",
   count |-> Len(products),
   products |-> [i \in 1..Len(products) |->
                   [name |-> Get(products[i], "name", "Unknown"),
                    model |-> Get(products[i], "model", "No model")]]]

\* notify_product_changes: the messages it hands to manager.broadcast, in
\* order.
notify_product_changes(change_data) ==
  (IF Get(change_data, "new_products", <<>>) /= <<>>
     THEN <<change_notification("new_products", change_data.new_products)>>
     ELSE <<>>)
  \o (IF Get(change_data, "modified_products", <<>>) /= <<>>
        THEN <<change_notification("modified_products", change_data.modified_products)>>
        ELSE <<>>)
  \o (IF Get(change_data, "deleted_products", <<>>) /= <<>>
        THEN <<deleted_notification(change_data.deleted_products)>>
        ELSE <<>>)

\* The dict _poll_and_process hands to the notification callback.
callback_data(new_products, modified_products) ==
  [new_products |-> new_products, modified_products |-> modified_products]

\* What a cycle leaves when it ends before update_catalog is called.
cycle_result(outcome, caught, detected, md, file, new_products, modified_products) ==
  [outcome |-> outcome, caught |-> caught, propagated |-> FALSE,
   detected |-> detected, metadata |-> md, file |-> file,
   new_products |-> new_products, modified_products |-> modified_products,
   backup |-> <<>>, broadcast |-> <<>>, suspends |-> FALSE]

\* The variant of poll_updated that notifies whatever update_catalog returned.
poll_updated_notify_always(md, new_products, modified_products, u) ==
  [outcome |-> IF u.success THEN "updated" ELSE "update_failed",
   caught |-> u.raised, propagated |-> FALSE, detected |-> TRUE,
   metadata |-> md, file |-> u.file, backup |-> u.backup,
   new_products |-> new_products, modified_products |-> modified_products,
   broadcast |-> notify_product_changes(callback_data(new_products, modified_products)),
   suspends |-> new_products /= <<>> \/ modified_products /= <<>>]

\* Lines 565-585: the cycle after update_catalog returned u. The task is
\* suspended in the notification callback when there is something to broadcast.
poll_updated(md, new_products, modified_products, u) ==
  [outcome |-> IF u.success THEN "updated" ELSE "update_failed",
   caught |-> u.raised, propagated |-> FALSE, detected |-> TRUE,
   metadata |-> md, file |-> u.file, backup |-> u.backup,
   new_products |-> new_products, modified_products |-> modified_products,
   broadcast |-> IF u.success
                   THEN notify_product_changes(callback_data(new_products, modified_products))
                   ELSE <<>>,
   suspends |-> u.success /\ (new_products /= <<>> \/ modified_products /= <<>>)]

\* Lines 563-565: update_catalog is called when there is anything to hand it.
poll_processed(md, file, new_products, modified_products, current_sheet_models, save_result) ==
  IF new_products /= <<>> \/ modified_products /= <<>> \/ current_sheet_models /= <<>>
    THEN poll_updated(md, new_products, modified_products,
           update_catalog(file, new_products, modified_products,
                          current_sheet_models, save_result))
    ELSE cycle_result("nothing_to_update", FALSE, TRUE, md, file,
                      new_products, modified_products)

\* The variant of poll_detected that goes on to the processing whatever
\* has_changes says.
poll_detected_always(file, sheets_data, d, save_result) ==
  poll_processed(d.metadata, file,
    IF d.changes.new_row_count > 0
      THEN process_new_rows(d.changes.new_rows, sheets_data[1])
      ELSE <<>>,
    IF d.changes.modified_row_count > 0
      THEN process_modified_rows(d.changes.modified_rows, sheets_data[1])
      ELSE <<>>,
    current_sheet_models_of(Tail(sheets_data)),
    save_result)

\* Lines 516-561: the cycle after detect_changes returned d.
poll_detected(file, sheets_data, d, save_result) ==
  IF ~d.changes.has_changes
    THEN cycle_result("no_changes", FALSE, TRUE, d.metadata, file, <<>>, <<>>)
    ELSE poll_processed(d.metadata, file,
           IF d.changes.new_row_count > 0
             THEN process_new_rows(d.changes.new_rows, sheets_data[1])
             ELSE <<>>,
           IF d.changes.modified_row_count > 0
             THEN process_modified_rows(d.changes.modified_rows, sheets_data[1])
             ELSE <<>>,
           current_sheet_models_of(Tail(sheets_data)),
           save_result)

\* The variant of poll_and_process that tests for an empty snapshot only after
\* detect_changes has run on it.
poll_and_process_late_test(md, file, fetched, save_result) ==
  IF fetched.status = "error"
    THEN cycle_result("fetch_error", TRUE, FALSE, md, file, <<>>, <<>>)
  ELSE IF fetched.values = <<>>
    THEN cycle_result("no_data", FALSE, TRUE, detect_changes(md, fetched.values).metadata,
                      file, <<>>, <<>>)
  ELSE poll_detected(file, fetched.values, detect_changes(md, fetched.values),
                     save_result)

\* _poll_and_process up to its return or its suspension in the notification
\* callback. caught: an exception was raised and handled inside (lines 383,
\* 587); propagated: an exception left _poll_and_process (none does).
poll_and_process(md, file, fetched, save_result) ==
  IF fetched.status = "error"
    THEN cycle_result("fetch_error", TRUE, FALSE, md, file, <<>>, <<>>)
  ELSE IF fetched.values = <<>>
    THEN cycle_result("no_data", FALSE, FALSE, md, file, <<>>, <<>>)
  ELSE poll_detected(file, fetched.values, detect_changes(md, fetched.values),
                     save_result)

\* stats after the counting of lines 540-541 and 552-553.
stats_counted(st, r) ==
  [st EXCEPT !.products_added = @ + Len(r.new_products),
             !.products_modified = @ + Len(r.modified_products)]

\* The variant of loop_continues of a loop that never tests the flag.
loop_continues_always(flag) == TRUE

\* while self.is_running
loop_continues(flag) == flag

\* The variant of loop_after without exception handlers: a cycle in which an
\* exception was raised ends the task.
loop_after_unguarded(st, r) ==
  IF r.caught \/ r.propagated
    THEN [pc |-> "done", sleep |-> 0, stats |-> st]
    ELSE [pc |-> "sleep", sleep |-> poll_interval,
          stats |-> [st EXCEPT !.last_check = "now", !.total_checks = @ + 1]]

\* The rest of the loop body once _poll_and_process is over: the statistics
\* and the sleep of the try branch, or of the except branch when an exception
\* came out of _poll_and_process.
loop_after(st, r) ==
  IF r.propagated
    THEN [pc |-> "sleep", sleep |-> retry_delay,
          stats |-> [st EXCEPT !.errors = @ + 1]]
    ELSE [pc |-> "sleep", sleep |-> poll_interval,
          stats |-> [st EXCEPT !.last_check = "now", !.total_checks = @ + 1]]

\* The state a cycle of service s leaves, r being what _poll_and_process did
\* and after the rest of the loop body.
CycleDone(s, fetched, r, counted, after) ==
  /\ fetches' = fetches + 1
  /\ metadata' = [metadata EXCEPT ![s] = r.metadata]
  /\ metadata_file' = IF r.detected THEN r.metadata ELSE metadata_file
  /\ products_file' = r.file
  /\ backup_file' = IF r.backup = <<>> THEN backup_file ELSE r.backup[1]
  /\ cycle' = [cycle EXCEPT ![s] =
       [n |-> fetches + 1, outcome |-> r.outcome, caught |-> r.caught,
        previous_caught |-> cycle[s].caught, sheets_data |-> fetched.values,
        new_products |-> r.new_products,
        modified_products |-> r.modified_products,
        broadcast |-> r.broadcast]]
  /\ IF r.suspends
       THEN /\ pc' = [pc EXCEPT ![s] = "notify"]
            /\ stats' = [stats EXCEPT ![s] = counted]
            /\ sleep' = [sleep EXCEPT ![s] = 0]
       ELSE /\ pc' = [pc EXCEPT ![s] = after.pc]
            /\ stats' = [stats EXCEPT ![s] = after.stats]
            /\ sleep' = [sleep EXCEPT ![s] = after.sleep]

Cycle(s, fetched, r) ==
  CycleDone(s, fetched, r, stats_counted(stats[s], r),
            loop_after(stats_counted(stats[s], r), r))

\* One pass of the loop of start_polling from its test of the flag: the task
\* ends, or runs a cycle up to its next suspension.
Iteration(s, flag, fetched, save_result) ==
  IF ~loop_continues(flag)
    THEN /\ pc' = [pc EXCEPT ![s] = "done"]
         /\ sleep' = [sleep EXCEPT ![s] = 0]
         /\ UNCHANGED <<products_file, backup_file, metadata_file, stats, metadata,
                        cycle, fetches>>
    ELSE /\ fetches < MaxPolls
         /\ Cycle(s, fetched,
                  poll_and_process(metadata[s], products_file, fetched, save_result))

\* POST /polling/start: refused while the current service is running, else a
\* new AutomatedPollingService is constructed and its task created.
StartRequest(load_result) ==
  /\ ~(polling_service /= 0 /\ is_running[polling_service])
  /\ polling_service < MaxServices
  /\ LET s == polling_service + 1
     IN /\ polling_service' = s
        /\ metadata' = [metadata EXCEPT ![s] = load_metadata(metadata_file, load_result)]
        /\ stats' = [stats EXCEPT ![s] = initial_stats]
        /\ is_running' = [is_running EXCEPT ![s] = FALSE]
        /\ pc' = [pc EXCEPT ![s] = "created"]
  /\ UNCHANGED <<products_file, backup_file, metadata_file, sleep, cycle, fetches>>
  /\ UNCHANGED detect_vars
  /\ UNCHANGED script_vars
  /\ UNCHANGED tool_vars

\* POST /polling/stop: refused unless the current service is running, else
\* stop_polling clears its flag.
StopRequest ==
  /\ polling_service /= 0
  /\ is_running[polling_service]
  /\ is_running' = [is_running EXCEPT ![polling_service] = FALSE]
  /\ UNCHANGED <<products_file, backup_file, metadata_file, polling_service, pc,
                 sleep, stats, metadata, cycle, fetches>>
  /\ UNCHANGED detect_vars
  /\ UNCHANGED script_vars
  /\ UNCHANGED tool_vars

\* The task of start_polling runs for the first time: it sets the flag and
\* enters the loop.
TaskStart(s, fetched, save_result) ==
  /\ pc[s] = "created"
  /\ is_running' = [is_running EXCEPT ![s] = TRUE]
  /\ Iteration(s, TRUE, fetched, save_result)
  /\ UNCHANGED polling_service
  /\ UNCHANGED detect_vars
  /\ UNCHANGED script_vars
  /\ UNCHANGED tool_vars

\* asyncio.sleep returns and the loop tests the flag again.
Wake(s, fetched, save_result) ==
  /\ pc[s] = "sleep"
  /\ Iteration(s, is_running[s], fetched, save_result)
  /\ UNCHANGED <<is_running, polling_service>>
  /\ UNCHANGED detect_vars
  /\ UNCHANGED script_vars
  /\ UNCHANGED tool_vars

Resume(s, after) ==
  /\ pc' = [pc EXCEPT ![s] = after.pc]
  /\ stats' = [stats EXCEPT ![s] = after.stats]
  /\ sleep' = [sleep EXCEPT ![s] = after.sleep]

\* The notification callback returns; _poll_and_process returns and the loop
\* body goes on to its sleep.
NotifyReturn(s) ==
  /\ pc[s] = "notify"
  /\ Resume(s, loop_after(stats[s], [propagated |-> FALSE, caught |-> FALSE]))
  /\ UNCHANGED <<products_file, backup_file, metadata_file, polling_service,
                 is_running, metadata, cycle, fetches>>
  /\ UNCHANGED detect_vars
  /\ UNCHANGED script_vars
  /\ UNCHANGED tool_vars

Init ==
  /\ d_metadata = default_metadata
  /\ d_previous = <<>>
  /\ d_current = <<>>
  /\ d_changes = no_changes
  /\ InitService
  /\ InitScripts

Next ==
  \/ \E load_result \in {"ok", "error"} : StartRequest(load_result)
  \/ StopRequest
  \/ \E s \in 1..MaxServices, fetched \in Fetches, save_result \in SaveResults :
       \/ TaskStart(s, fetched, save_result)
       \/ Wake(s, fetched, save_result)
  \/ \E s \in 1..MaxServices : NotifyReturn(s)

Spec == Init /\ [][Next]_vars

\* The fetches of the runs in which the loop itself is followed: an error,
\* an empty sheet, a sheet with its header only and a sheet with one product.
LoopFetches ==
  {[status |-> "error", values |-> <<>>],
   [status |-> "ok", values |-> <<>>],
   [status |-> "ok", values |-> <<Headers>>],
   [status |-> "ok", values |-> <<Headers, <<"M1", "A", "C1">>>>]}

NextLoop ==
  \/ StartRequest("ok")
  \/ StopRequest
  \/ \E s \in 1..MaxServices, fetched \in LoopFetches, save_result \in SaveResults :
       \/ TaskStart(s, fetched, save_result)
       \/ Wake(s, fetched, save_result)
  \/ \E s \in 1..MaxServices : NotifyReturn(s)

\* The event loop runs every task that is ready: a created task starts, a
\* sleep ends, the notification callback returns.
TaskFairness ==
  \A s \in 1..MaxServices :
    /\ WF_vars(\E fetched \in LoopFetches, save_result \in SaveResults :
                 TaskStart(s, fetched, save_result))
    /\ WF_vars(\E fetched \in LoopFetches, save_result \in SaveResults :
                 Wake(s, fetched, save_result))
    /\ WF_vars(NotifyReturn(s))

SpecLoop == Init /\ [][NextLoop]_vars /\ TaskFairness

\* ------------------------------------------------ the catalog writers alone
\* The rows update_catalog is given products of, under Headers.
CatalogRows == {<<"M1", "A", "C1">>, <<"M1", "B", "C2">>, <<"M2", "A">>}

\* The rows update_catalog is given modified products of.
ModifiedCatalogRows == {<<"M1", "B", "C2">>, <<"M2", "A">>}

\* An entry of modified_rows as detect_changes builds it for row 1.
modified_row_of(row) ==
  [row_index |-> 1, row_data |-> row,
   previous_hash |-> md5_hexdigest(json_dumps(<<>>)),
   current_hash |-> md5_hexdigest(json_dumps(row))]

\* A catalog written before this program's product format: its entry has a
\* price and no specifications.
legacy_catalog ==
  [metadata |-> [total_products |-> 1],
   products |-> <<[name |-> "Old", model |-> "M1", category |-> "C0", price |-> 9]>>]

\* A catalog of two entries, the second one written by update_catalog.
mixed_catalog ==
  [metadata |-> [total_products |-> 2, categories |-> {"C0"}, categories_count |-> 1,
                 last_synchronized |-> "now", source |-> "google_sheets_import"],
   products |-> <<legacy_catalog.products[1],
                  [name |-> "A", model |-> "M2", category |-> "",
                   specifications |-> "", features |-> "", hero_image |-> "",
                   secondary_image |-> ""]>>]

InitialCatalogs == {NoFile, legacy_catalog, mixed_catalog}

\* What the file system does to a catalog write.
CatalogSaveResults == {"ok", "error", "write_error"}

\* The products JSONSynchronizer converts from the enhanced data (the fields
\* its metadata reads, and the name).
SyncProducts ==
  {[name |-> "A", model |-> "M1", supplier |-> "S1", category |-> "C1", price |-> 10],
   [name |-> "B", model |-> "M2", supplier |-> "S1", category |-> "", price |-> 0]}

RECURSIVE total_value_of(_)
total_value_of(products_list) ==
  IF products_list = <<>> THEN 0
  ELSE (IF Head(products_list).price > 0 THEN Head(products_list).price ELSE 0)
         + total_value_of(Tail(products_list))

\* JSONSynchronizer.generate_products_metadata; average_price is kept as the
\* pair (total_value, price_count) it is the quotient of.
generate_products_metadata(products_list) ==
  [total_products |-> Len(products_list),
   categories_count |-> Cardinality({Get(p, "category", "") : p \in Range(products_list)}),
   suppliers_count |-> Cardinality({Get(p, "supplier", "") : p \in Range(products_list)}),
   categories |-> {Get(p, "category", "") : p \in Range(products_list)},
   suppliers |-> {Get(p, "supplier", "") : p \in Range(products_list)},
   average_price |->
     <<total_value_of(products_list),
       Cardinality({i \in 1..Len(products_list) : products_list[i].price > 0})>>,
   last_synchronized |-> "now",
   source |-> "products_hierarchical_enhanced.json"]

\* JSONSynchronizer.create_backup: nothing to copy when the file does not
\* exist, else the copy it wrote (<<>> when writing it failed).
create_backup(file, save_result) ==
  IF DOMAIN file = {} THEN [ok |-> TRUE, backup |-> <<>>]
  ELSE IF save_result = "error" THEN [ok |-> FALSE, backup |-> <<>>]
  ELSE [ok |-> TRUE, backup |-> <<file>>]

\* JSONSynchronizer.save_products_json(products_list): a failed backup is
\* logged and the file is written anyway.
save_products_json(file, products_list, save_result) ==
  [success |-> save_result /= "write_error",
   raised |-> save_result = "write_error",
   backup |-> create_backup(file, save_result).backup,
   file |-> IF save_result = "write_error" THEN file
            ELSE [metadata |-> generate_products_metadata(products_list),
                  products |-> products_list]]

\* The state a call of a catalog writer leaves, u being what the writer did.
CatalogCallDone(op, new_products, modified_products, save_result, u, permuted) ==
  /\ products_file' = u.file
  /\ backup_file' = IF u.backup = <<>> THEN backup_file ELSE u.backup[1]
  /\ call' = [n |-> call.n + 1, op |-> op, before |-> products_file,
              new_products |-> new_products,
              modified_products |-> modified_products, save_result |-> save_result,
              success |-> u.success, permuted |-> permuted,
              headers |-> <<>>, rows |-> <<>>]
  /\ UNCHANGED <<metadata_file, polling_service, is_running, pc, sleep, stats,
                 metadata, cycle, fetches, spreadsheet, sync>>
  /\ UNCHANGED tool_vars
  /\ UNCHANGED detect_vars

\* DataProcessor.update_catalog(new_products, modified_products,
\* current_sheet_models), the products being those of the rows given.
UpdateCatalogCall(new_rows, modified_rows, current_sheet_models, save_result) ==
  /\ call.n < MaxCalls
  /\ Len(load_products(products_file).products) + Len(new_rows) <= MaxCatalog
  /\ CatalogCallDone("update_catalog",
       process_new_rows(new_rows, Headers),
       process_modified_rows(modified_rows, Headers), save_result,
       update_catalog(products_file, process_new_rows(new_rows, Headers),
                      process_modified_rows(modified_rows, Headers),
                      current_sheet_models, save_result),
       <<>>)

\* JSONSynchronizer.save_products_json(products_list).
SaveProductsJsonCall(products_list, save_result) ==
  /\ call.n < MaxCalls
  /\ CatalogCallDone("save_products_json", products_list, <<>>, save_result,
       save_products_json(products_file, products_list, save_result), <<>>)

\* The columns of a sheet in another order.
Permutations3 == {f \in [1..3 -> 1..3] : \A i, j \in 1..3 : f[i] = f[j] => i = j}

permuted_row(row, f) == [i \in 1..3 |-> row[f[i]]]

permuted_sheet(sheets_data, f) ==
  [i \in 1..Len(sheets_data) |-> permuted_row(sheets_data[i], f)]

\* The rows of the sheets polled with their columns permuted: no cell is
\* empty, so each row has a cell in every column in any order.
PermutedRows == {<<"M1", "A", "C1">>, <<"M2", "B", "C2">>}

PermutedSheets == {<<Headers>> \o rows : rows \in SeqsUpTo(PermutedRows, MaxRows)}

\* What a cycle did, as the calls on their own record it.
polled(r) ==
  [success |-> r.outcome = "updated", file |-> r.file, backup |-> r.backup,
   new_products |-> r.new_products, modified_products |-> r.modified_products,
   outcome |-> r.outcome]

PollCallDone(r, rp) ==
  CatalogCallDone("poll", r.new_products, r.modified_products, "ok", r, <<rp>>)

\* The first _poll_and_process of a new service on a sheet, and beside it
\* what the same cycle does when the columns of the sheet are in the order f.
PollCall(sheets_data, f) ==
  /\ call.n < MaxCalls
  /\ Len(load_products(products_file).products) + Len(sheets_data) - 1 <= MaxCatalog
  /\ PollCallDone(
       polled(poll_and_process(default_metadata, products_file,
                [status |-> "ok", values |-> sheets_data], "ok")),
       polled(poll_and_process(default_metadata, products_file,
                [status |-> "ok", values |-> permuted_sheet(sheets_data, f)], "ok")))

InitCatalog ==
  /\ d_metadata = default_metadata
  /\ d_previous = <<>>
  /\ d_current = <<>>
  /\ d_changes = no_changes
  /\ products_file \in InitialCatalogs
  /\ backup_file = NoFile
  /\ metadata_file = NoFile
  /\ InitTasks
  /\ InitScripts

NextCatalog ==
  \/ \E new_rows \in SeqsUpTo(CatalogRows, 1),
        modified_rows \in SeqsUpTo({modified_row_of(row) : row \in ModifiedCatalogRows}, MaxRows),
        current_sheet_models \in {<<>>, <<"M1">>, <<"M1", "M2">>},
        save_result \in CatalogSaveResults :
       UpdateCatalogCall(new_rows, modified_rows, current_sheet_models, save_result)
  \/ \E products_list \in SeqsUpTo(SyncProducts, 1), save_result \in CatalogSaveResults :
       SaveProductsJsonCall(products_list, save_result)
  \/ \E sheets_data \in PermutedSheets, f \in Permutations3 : PollCall(sheets_data, f)

SpecCatalog == InitCatalog /\ [][NextCatalog]_vars

\* --------------------------------------------------- the row batches alone
\* The header rows the batches are converted under: the usual one, the same
\* columns in another order, and one without a Product Name column.
BatchHeaders ==
  {Headers, <<"Product Name", "Model Number", "Category">>, <<"Model Number", "Category">>}

\* The rows of a batch: a product, a row with a blank cell in the second
\* column, a row of one cell, a row longer than the headers, and a value that
\* is not a row.
BatchRows == {<<"M1", "A", "C1">>, <<"M2", " ">>, <<"M2">>, <<"M3", "B", "C2", "x">>, None}

\* The modified_rows list whose entries carry the rows given, in order, each
\* with its place as row_index.
modified_rows_from(rows) ==
  [i \in 1..Len(rows) |-> [modified_row_of(rows[i]) EXCEPT !.row_index = i]]

\* process_new_rows(new_rows, headers) and
\* process_modified_rows(modified_rows, headers) on the same rows.
ProcessRowsCall(rows, headers) ==
  /\ call.n = 0
  /\ call' = [no_call EXCEPT !.n = 1, !.op = "process_rows",
                             !.headers = headers, !.rows = rows,
                             !.new_products = process_new_rows(rows, headers),
                             !.modified_products =
                               process_modified_rows(modified_rows_from(rows), headers)]
  /\ UNCHANGED <<spreadsheet, sync>>
  /\ UNCHANGED tool_vars
  /\ UNCHANGED service_vars
  /\ UNCHANGED detect_vars

NextRows ==
  \E rows \in SeqsUpTo(BatchRows, MaxDetectRows), headers \in BatchHeaders :
    ProcessRowsCall(rows, headers)

SpecRows == Init /\ [][NextRows]_vars

\* ------------------------------------------------------- ConnectionManager
\* list.remove(websocket) guarded by `websocket in self.active_connections`:
\* the first occurrence is removed.
disconnect(connections, websocket) ==
  IF websocket \notin Range(connections) THEN connections
  ELSE [i \in 1..(Len(connections) - 1) |->
          IF \A j \in 1..i : connections[j] /= websocket
            THEN connections[i]
            ELSE connections[i + 1]]

\* websocket_endpoint: manager.connect(websocket) for a new websocket.
Connect(websocket) ==
  /\ websocket \notin Range(active_connections) \cup broken
  /\ active_connections' = Append(active_connections, websocket)
  /\ UNCHANGED <<broken, broadcasting>>
  /\ UNCHANGED <<detect_vars, service_vars, script_vars, batch_vars>>

\* The client of a connected websocket goes away: receive_text and send_text
\* on it raise from now on.
ClientGone(websocket) ==
  /\ websocket \in Range(active_connections)
  /\ websocket \notin broken
  /\ broken' = broken \cup {websocket}
  /\ UNCHANGED <<active_connections, broadcasting>>
  /\ UNCHANGED <<detect_vars, service_vars, script_vars, batch_vars>>

\* websocket_endpoint: receive_text raised WebSocketDisconnect and the handler
\* calls manager.disconnect(websocket).
Disconnect(websocket) ==
  /\ websocket \in broken
  /\ websocket \in Range(active_connections)
  /\ active_connections' = disconnect(active_connections, websocket)
  /\ UNCHANGED <<broken, broadcasting>>
  /\ UNCHANGED <<detect_vars, service_vars, script_vars, batch_vars>>

\* manager.broadcast(message) is called: the for loop takes an iterator of
\* the list.
BroadcastStart ==
  /\ broadcasting.pc = "idle"
  /\ broadcasting' = [pc |-> "loop", index |-> 0,
                      at_start |-> active_connections, delivered |-> {}]
  /\ UNCHANGED <<active_connections, broken>>
  /\ UNCHANGED <<detect_vars, service_vars, script_vars, batch_vars>>

\* One pass of the for loop: the iterator hands out the element at its index
\* of the list as it is now, or ends the loop; send_text delivers the message
\* or raises, and the except branch removes the connection from the list.
\* Other handlers run while send_text is awaited, that is between two passes.
BroadcastStep ==
  /\ broadcasting.pc = "loop"
  /\ IF broadcasting.index >= Len(active_connections)
       THEN /\ broadcasting' = [broadcasting EXCEPT !.pc = "done"]
            /\ UNCHANGED active_connections
       ELSE LET connection == active_connections[broadcasting.index + 1]
            IN IF connection \in broken
                 THEN /\ active_connections' = disconnect(active_connections, connection)
                      /\ broadcasting' = [broadcasting EXCEPT !.index = @ + 1]
                 ELSE /\ UNCHANGED active_connections
                      /\ broadcasting' = [broadcasting EXCEPT
                                            !.index = @ + 1,
                                            !.delivered = @ \cup {connection}]
  /\ UNCHANGED broken
  /\ UNCHANGED <<detect_vars, service_vars, script_vars, batch_vars>>

NextSockets ==
  \/ \E websocket \in 1..MaxSockets :
       \/ Connect(websocket)
       \/ ClientGone(websocket)
       \/ Disconnect(websocket)
  \/ BroadcastStart
  \/ BroadcastStep

SpecSockets == Init /\ [][NextSockets]_vars

\* -------------------------------------------------------- MasterAutomation
\* What a step of the pipeline does: steps 1 to 3 return True ("ok") or
\* False ("failed": the component reported failure or raised); step 4 returns
\* True when the cleanup reported errors ("errors") and False when it raised;
\* step 5 returns False when the validation found errors ("errors").
StepOutcomes ==
  [prerequisites : BOOLEAN,
   step_1 : {"ok", "failed"}, step_2 : {"ok", "failed"},
   step_3 : {"ok", "failed"}, step_4 : {"ok", "errors", "raised"},
   step_5 : {"ok", "errors"}]

\* The return of run_pipeline and its finally clause: the report is written
\* whatever was returned.
pipeline_return(p, started, returned, new_errors) ==
  [p EXCEPT !.runs = @ + 1, !.started = started, !.returned = returned,
            !.success = IF returned THEN TRUE ELSE @,
            !.success_set = returned,
            !.errors = @ + new_errors,
            !.reports = @ + 1]

\* The variant of pipeline_completed that returns False when the cleanup step
\* has returned False.
pipeline_completed_strict(p, o, dry_run, skip_cleanup, skip_validation) ==
  pipeline_return(
    [p EXCEPT !.dry_run = IF skip_cleanup THEN @ ELSE dry_run,
              !.files_synchronized = 1,
              !.validation_errors =
                 IF skip_validation THEN @
                 ELSE IF o.step_5 = "errors" THEN 1 ELSE 0],
    <<"prerequisites", "step_1", "step_2", "step_3">>
      \o (IF skip_cleanup THEN <<>> ELSE <<"step_4">>)
      \o (IF skip_validation THEN <<>> ELSE <<"step_5">>),
    skip_cleanup \/ o.step_4 /= "raised",
    (IF ~skip_cleanup /\ o.step_4 /= "ok" THEN 1 ELSE 0)
      + (IF ~skip_validation /\ o.step_5 /= "ok" THEN 1 ELSE 0))

\* run_pipeline once steps 1 to 3 have returned True: the optional steps 4
\* and 5, whose results are only logged, then success is set and True
\* returned.
pipeline_completed(p, o, dry_run, skip_cleanup, skip_validation) ==
  pipeline_return(
    [p EXCEPT !.dry_run = IF skip_cleanup THEN @ ELSE dry_run,
              !.files_synchronized = 1,
              !.validation_errors =
                 IF skip_validation THEN @
                 ELSE IF o.step_5 = "errors" THEN 1 ELSE 0],
    <<"prerequisites", "step_1", "step_2", "step_3">>
      \o (IF skip_cleanup THEN <<>> ELSE <<"step_4">>)
      \o (IF skip_validation THEN <<>> ELSE <<"step_5">>),
    TRUE,
    (IF ~skip_cleanup /\ o.step_4 /= "ok" THEN 1 ELSE 0)
      + (IF ~skip_validation /\ o.step_5 /= "ok" THEN 1 ELSE 0))

\* run_pipeline(dry_run, skip_cleanup, skip_validation): each of the first
\* four steps returns False from the pipeline when it returns False, having
\* appended its error message.
run_pipeline(p, o, dry_run, skip_cleanup, skip_validation) ==
  IF ~o.prerequisites
    THEN pipeline_return(p, <<"prerequisites">>, FALSE, 1)
  ELSE IF o.step_1 /= "ok"
    THEN pipeline_return(p, <<"prerequisites", "step_1">>, FALSE, 1)
  ELSE IF o.step_2 /= "ok"
    THEN pipeline_return(p, <<"prerequisites", "step_1", "step_2">>, FALSE, 1)
  ELSE IF o.step_3 /= "ok"
    THEN pipeline_return([p EXCEPT !.files_synchronized = 0],
           <<"prerequisites", "step_1", "step_2", "step_3">>, FALSE, 1)
  ELSE pipeline_completed(p, o, dry_run, skip_cleanup, skip_validation)

\* MasterAutomation.run_pipeline(dry_run, skip_cleanup, skip_validation)
RunPipeline(o, dry_run, skip_cleanup, skip_validation) ==
  /\ pipeline_stats.runs < MaxRuns
  /\ pipeline_stats' =
       [run_pipeline(pipeline_stats, o, dry_run, skip_cleanup, skip_validation)
          EXCEPT !.outcomes = o, !.skip_cleanup = skip_cleanup,
                 !.skip_validation = skip_validation]
  /\ UNCHANGED <<active_connections, broken, broadcasting, data_dir, cleanup_stats,
                 synchronized>>
  /\ UNCHANGED <<detect_vars, service_vars, script_vars>>

NextPipeline ==
  \E o \in StepOutcomes, dry_run, skip_cleanup, skip_validation \in BOOLEAN :
    RunPipeline(o, dry_run, skip_cleanup, skip_validation)

SpecPipeline == Init /\ [][NextPipeline]_vars

\* ------------------------------------------------------ JSONCleanupUtility
essential_files ==
  {"products_hierarchical_enhanced.json", "products.json",
   "SMART HOME FOLLOWING PROJECT - All Products.csv"}

safe_to_remove ==
  {"products_hierarchical.json", "products_hierarchical_enhanced_v2.json",
   "products_hierarchical_fixed.json", "sample_enhancement.json",
   "products_enhanced.json", "products_temp.json", "products_backup.json",
   "test_products.json", "products_old.json"}

\* files.sort(key=modified, reverse=True): the names of group from the latest
\* modification time m down, names of the same time in the order they had.
RECURSIVE newest_first(_, _, _)
newest_first(dir, group, m) ==
  IF m = 0 THEN <<>>
  ELSE SelectSeq(group, LAMBDA n : dir[n].modified = m) \o newest_first(dir, group, m - 1)

\* identify_duplicates: the remove_files of all groups of two or more scanned
\* files with the same content hash (a file whose content could not be read
\* has the hash None and is in no group).
remove_files_of(dir, names) ==
  UNION {Range(Tail(newest_first(dir,
                      SelectSeq(names, LAMBDA n : dir[n].content_hash = h), MaxAge))) :
           h \in {dir[n].content_hash : n \in Range(names)} \ {"None"}}

\* The variant of cleanup that handles the duplicates without looking at
\* essential_files.
cleanup_unprotected(dir, order, dry_run, archive_instead_of_delete, move_fails) ==
  LET names == SelectSeq(order, LAMBDA n : n \in DOMAIN dir)
      safe == {n \in Range(names) : n \in safe_to_remove /\ n \notin essential_files}
      duplicates == remove_files_of(dir, names)
      moved == IF move_fails THEN {} ELSE safe \cup duplicates
      count == IF move_fails THEN 0 ELSE Cardinality(safe) + Cardinality(duplicates)
  IN IF dry_run
       THEN [dir |-> dir, files_removed |-> 0, files_archived |-> 0, errors |-> 0,
             archived |-> {}]
       ELSE [dir |-> [n \in DOMAIN dir \ moved |-> dir[n]],
             files_removed |-> IF archive_instead_of_delete THEN 0 ELSE count,
             files_archived |-> IF archive_instead_of_delete THEN count ELSE 0,
             errors |-> IF move_fails
                          THEN Cardinality(safe) + Cardinality(duplicates) ELSE 0,
             archived |-> IF archive_instead_of_delete THEN moved ELSE {}]

\* cleanup(dry_run, archive_instead_of_delete) on the directory dir, whose
\* files glob yields in the order given: the directory and the statistics it
\* leaves. The known redundant files are handled first, then the duplicates;
\* archive_file and remove_file return True for a file that is already gone,
\* so a file in both lists is counted twice. move_fails: shutil.move and
\* unlink raise.
cleanup(dir, order, dry_run, archive_instead_of_delete, move_fails) ==
  LET names == SelectSeq(order, LAMBDA n : n \in DOMAIN dir)
      safe == {n \in Range(names) : n \in safe_to_remove /\ n \notin essential_files}
      duplicates == remove_files_of(dir, names) \ essential_files
      moved == IF move_fails THEN {} ELSE safe \cup duplicates
      count == IF move_fails THEN 0 ELSE Cardinality(safe) + Cardinality(duplicates)
  IN IF dry_run
       THEN [dir |-> dir, files_removed |-> 0, files_archived |-> 0, errors |-> 0,
             archived |-> {}]
       ELSE [dir |-> [n \in DOMAIN dir \ moved |-> dir[n]],
             files_removed |-> IF archive_instead_of_delete THEN 0 ELSE count,
             files_archived |-> IF archive_instead_of_delete THEN count ELSE 0,
             errors |-> IF move_fails
                          THEN Cardinality(safe) + Cardinality(duplicates) ELSE 0,
             archived |-> IF archive_instead_of_delete THEN moved ELSE {}]

\* A script writes a JSON file into the data directory.
WriteFile(name, content_hash, modified) ==
  /\ cleanup_stats.runs = 0
  /\ name \notin DOMAIN data_dir
  /\ data_dir' = [n \in DOMAIN data_dir \cup {name} |->
                    IF n = name THEN [content_hash |-> content_hash, modified |-> modified]
                    ELSE data_dir[n]]
  /\ UNCHANGED <<active_connections, broken, broadcasting, pipeline_stats, cleanup_stats,
                 synchronized>>
  /\ UNCHANGED <<detect_vars, service_vars, script_vars>>

\* JSONCleanupUtility.cleanup(dry_run, archive_instead_of_delete)
Cleanup(order, dry_run, archive_instead_of_delete, move_fails) ==
  /\ cleanup_stats.runs = 0
  /\ LET c == cleanup(data_dir, order, dry_run, archive_instead_of_delete, move_fails)
     IN /\ data_dir' = c.dir
        /\ cleanup_stats' =
             [runs |-> 1, dry_run |-> dry_run, files_removed |-> c.files_removed,
              files_archived |-> c.files_archived, errors |-> c.errors,
              before |-> data_dir, archived |-> c.archived]
  /\ UNCHANGED <<active_connections, broken, broadcasting, pipeline_stats, synchronized>>
  /\ UNCHANGED <<detect_vars, service_vars, script_vars>>

\* The JSON files of the runs: the two essential ones, a known redundant one
\* and one that is neither.
DataFiles ==
  {"products_hierarchical_enhanced.json", "products.json", "products_backup.json",
   "export.json"}

NextCleanup ==
  \/ \E name \in DataFiles, content_hash \in {"h1", "h2", "None"}, modified \in 1..MaxAge :
       WriteFile(name, content_hash, modified)
  \/ \E order \in {o \in [1..4 -> DataFiles] : \A i, j \in 1..4 : o[i] = o[j] => i = j},
        dry_run, archive_instead_of_delete, move_fails \in BOOLEAN :
       Cleanup(order, dry_run, archive_instead_of_delete, move_fails)

SpecCleanup == Init /\ [][NextCleanup]_vars

\* -------------------------------------------------------- JSONSynchronizer
\* The enhanced file is a sequence of categories, a category the sequence of
\* its products, a product a record of its model_number and specifications;
\* every product has a name, a category and a supplier. specifications is a
\* list of strings, or null.
EnhancedProducts ==
  [model_number : {"M1", "M2"}, specifications : {<<>>, <<"Power | 5W">>, None}]

RECURSIVE products_of(_)
products_of(categories) ==
  IF categories = <<>> THEN <<>> ELSE Head(categories) \o products_of(Tail(categories))

\* convert_enhanced_to_products_format: one entry per product of every
\* category, in order, the counter of the entries made so far in its id. With
\* specifications null the join is not made and _extract_features(None)
\* raises TypeError, which the except turns into a log line and `continue`.
RECURSIVE convert_enhanced_to_products_format(_, _)
convert_enhanced_to_products_format(products, product_counter) ==
  IF products = <<>> THEN <<>>
  ELSE IF Head(products).specifications = None
         THEN convert_enhanced_to_products_format(Tail(products), product_counter)
         ELSE <<[id |-> product_counter, model |-> Head(products).model_number,
                 features |-> IF Head(products).specifications = <<>> THEN ""
                              ELSE "Power"]>>
              \o convert_enhanced_to_products_format(Tail(products), product_counter + 1)

\* validate_synchronization: success, which the count mismatch makes False.
\* The entries have an id, a name, a category and a supplier.
validate_synchronization(enhanced_data, products_list) ==
  Len(products_of(enhanced_data)) = Len(products_list)

\* JSONSynchronizer.synchronize(validate). save_fails: save_products_json
\* returns False; report_fails: the validation report cannot be written.
Synchronize(enhanced_data, validate, save_fails, report_fails) ==
  /\ synchronized.runs < MaxSynchronize
  /\ LET products_list ==
           convert_enhanced_to_products_format(products_of(enhanced_data), 1)
         written == enhanced_data /= <<>> /\ products_list /= <<>> /\ ~save_fails
         validated == written /\ validate
     IN synchronized' =
          [runs |-> synchronized.runs + 1,
           returned |-> written /\ ~(validated /\ report_fails),
           enhanced_data |-> enhanced_data,
           written |-> written \/ synchronized.written,
           products_json |-> IF written THEN products_list ELSE synchronized.products_json,
           validation |-> IF ~validated THEN "none"
                          ELSE IF validate_synchronization(enhanced_data, products_list)
                                 THEN "passed" ELSE "issues"]
  /\ UNCHANGED <<active_connections, broken, broadcasting, pipeline_stats, data_dir,
                 cleanup_stats>>
  /\ UNCHANGED <<detect_vars, service_vars, script_vars>>

NextSynchronize ==
  \E enhanced_data \in UNION {[1..n -> UNION {[1..k -> EnhancedProducts] : k \in 0..MaxCategory}] :
                                 n \in 0..MaxCategory},
     validate, save_fails, report_fails \in BOOLEAN :
    Synchronize(enhanced_data, validate, save_fails, report_fails)

SpecSynchronize == Init /\ [][NextSynchronize]_vars

\* ------------------------------------------------------- GoogleSheetsSync
\* The cell texts of the Drive Link column and of the CSV file.
DriveF1 == "https://drive.google.com/file/d/F1/view"
DriveF2 == "https://drive.google.com/file/d/F2"
S3F1 == "https://heyzack.s3.us-east-1.amazonaws.com/F1.jpg"
S3F9 == "https://heyzack.s3.us-east-1.amazonaws.com/F9.png"

\* 'drive' in header.lower() and 'link' in header.lower()
is_drive_link_header(header) == header \in {"Drive Link", "drive link"}

\* 'drive.google.com' in drive_url
is_drive_url(url) == url \in {DriveF1, DriveF2}

\* extract_drive_file_id on the cell texts of the model.
extract_drive_file_id(drive_url) ==
  CASE drive_url = DriveF1 -> "F1"
    [] drive_url = DriveF2 -> "F2"
    [] OTHER -> ""

\* 's3.us-east-1.amazonaws.com' in drive_link_url
is_s3_url(url) == url \in {S3F1, S3F9}

\* The file name of an S3 URL without its .jpg, .png or .jpeg.
s3_file_id(url) ==
  CASE url = S3F1 -> "F1"
    [] url = S3F9 -> "F9"
    [] OTHER -> url

\* The index (1-based) of the first Drive Link column, 0 for None.
drive_col_idx_of(headers) ==
  IF \A i \in 1..Len(headers) : ~is_drive_link_header(headers[i]) THEN 0
  ELSE CHOOSE i \in 1..Len(headers) :
         /\ is_drive_link_header(headers[i])
         /\ \A j \in 1..(i - 1) : ~is_drive_link_header(headers[j])

\* The row has a Drive URL in the Drive Link column.
has_drive_url(row, col) ==
  /\ col <= Len(row)
  /\ row[col] /= ""
  /\ is_drive_url(Strip(row[col]))

\* create_drive_to_s3_mapping: file id -> S3 URL, for the file ids of the
\* sheet that the CSV file has an S3 URL of.
create_drive_to_s3_mapping(csv_data, sheets_data) ==
  IF sheets_data = <<>> \/ drive_col_idx_of(sheets_data[1]) = 0 THEN EmptyDict
  ELSE [file_id \in
         (({s3_file_id(Strip(Get(csv_data[i], "Drive Link", ""))) :
             i \in {j \in 1..Len(csv_data) :
                      is_s3_url(Strip(Get(csv_data[j], "Drive Link", "")))}}
          \cap {extract_drive_file_id(Strip(sheets_data[r][drive_col_idx_of(sheets_data[1])])) :
                  r \in {q \in 2..Len(sheets_data) :
                           has_drive_url(sheets_data[q], drive_col_idx_of(sheets_data[1]))}})
          \ {""})
        |-> Strip(csv_data[Last({j \in 1..Len(csv_data) :
                     s3_file_id(Strip(Get(csv_data[j], "Drive Link", ""))) = file_id})]
                    ["Drive Link"])]

\* The updates execute_sync prepares for the rows from row_idx on: the cell
\* of the Drive Link column (0-based idx in the range) and its S3 URL.
RECURSIVE updates_of(_, _, _, _)
updates_of(sheets_data, row_idx, col, mapping) ==
  IF row_idx > Len(sheets_data) THEN <<>>
  ELSE (IF /\ has_drive_url(sheets_data[row_idx], col)
           /\ extract_drive_file_id(Strip(sheets_data[row_idx][col])) \in DOMAIN mapping
          THEN <<[range |-> <<"All Products", col - 1, row_idx>>,
                  values |-> <<<<mapping[extract_drive_file_id(
                                           Strip(sheets_data[row_idx][col]))]>>>>]>>
          ELSE <<>>)
       \o updates_of(sheets_data, row_idx + 1, col, mapping)

\* GoogleSheetsClient.batch_update_cells: it prints what it would update and
\* returns False; no request is sent, the sheet stays as it is.
batch_update_cells(sheet, updates) == [result |-> FALSE, spreadsheet |-> sheet]

\* What execute_sync leaves when it returns before it has updates.
sync_failed == [op |-> "execute_sync", updates |-> <<>>, applied |-> FALSE,
                result |-> FALSE]

\* The end of execute_sync: batch_update_cells is called with the updates and
\* True is returned whatever it returned.
sync_applied(updates, b) ==
  IF updates = <<>> THEN [call |-> sync_failed, spreadsheet |-> b.spreadsheet]
  ELSE [call |-> [op |-> "execute_sync", updates |-> updates,
                  applied |-> b.result, result |-> TRUE],
        spreadsheet |-> b.spreadsheet]

\* execute_sync: csv_status and fetch_status tell whether reading the CSV
\* file and the sheet raised.
execute_sync(sheet, csv_status, csv_data, fetch_status) ==
  IF csv_status = "error" \/ fetch_status = "error"
    THEN [call |-> sync_failed, spreadsheet |-> sheet]
  ELSE IF sheet = <<>> \/ drive_col_idx_of(sheet[1]) = 0
    THEN [call |-> sync_failed, spreadsheet |-> sheet]
  ELSE IF create_drive_to_s3_mapping(csv_data, sheet) = EmptyDict
    THEN [call |-> sync_failed, spreadsheet |-> sheet]
  ELSE sync_applied(
         updates_of(sheet, 2, drive_col_idx_of(sheet[1]),
                    create_drive_to_s3_mapping(csv_data, sheet)),
         batch_update_cells(sheet,
           updates_of(sheet, 2, drive_col_idx_of(sheet[1]),
                      create_drive_to_s3_mapping(csv_data, sheet))))

SyncHeaders == {<<"Model Number", "Drive Link">>, <<"Model Number", "Image">>}
SyncRows == {<<"M1", DriveF1>>, <<"M2", DriveF2>>, <<"M3">>}

\* The sheets the sync is run on: empty, or a header and some rows.
SyncSheets ==
  {<<>>} \cup {<<h>> \o rows : h \in SyncHeaders, rows \in SeqsUpTo(SyncRows, MaxRows)}

\* The rows of the CSV file: a migrated image, an image the sheet does not
\* have, an image not migrated.
CsvRows == {[k \in {"Drive Link"} |-> url] : url \in {S3F1, S3F9, DriveF2}}

\* The lists of updates batch_update_cells is called with directly.
UpdateLists ==
  SeqsUpTo({[range |-> <<"All Products", 1, 2>>, values |-> <<<<S3F1>>>>],
            [range |-> <<"All Products", 1, 3>>, values |-> <<<<S3F9>>>>]}, MaxRows)

SyncDone(r) ==
  /\ sync' = r.call
  /\ spreadsheet' = r.spreadsheet
  /\ UNCHANGED call
  /\ UNCHANGED tool_vars
  /\ UNCHANGED service_vars
  /\ UNCHANGED detect_vars

\* GoogleSheetsSync.execute_sync()
ExecuteSyncCall(csv_status, csv_data, fetch_status) ==
  /\ sync.op = "none"
  /\ SyncDone(execute_sync(spreadsheet, csv_status, csv_data, fetch_status))

\* GoogleSheetsClient.batch_update_cells(spreadsheet_id, updates)
BatchUpdateCall(updates) ==
  /\ sync.op = "none"
  /\ SyncDone([call |-> [op |-> "batch_update_cells", updates |-> updates,
                         applied |-> batch_update_cells(spreadsheet, updates).result,
                         result |-> batch_update_cells(spreadsheet, updates).result],
               spreadsheet |-> batch_update_cells(spreadsheet, updates).spreadsheet])

InitSync ==
  /\ d_metadata = default_metadata
  /\ d_previous = <<>>
  /\ d_current = <<>>
  /\ d_changes = no_changes
  /\ InitService
  /\ call = no_call
  /\ spreadsheet \in SyncSheets
  /\ sync = no_sync
  /\ InitTools

NextSync ==
  \/ \E csv_status \in {"ok", "error"}, csv_data \in SeqsUpTo(CsvRows, MaxRows),
        fetch_status \in {"ok", "error"} :
       ExecuteSyncCall(csv_status, csv_data, fetch_status)
  \/ \E updates \in UpdateLists : BatchUpdateCall(updates)

SpecSync == InitSync /\ [][NextSync]_vars

\* ------------------------------------------------------------------ claims
\* The non-empty model numbers of the data rows of a snapshot that are
\* products (rows with a product name).
SheetModels(sheets_data) ==
  {p.model : p \in Range(process_new_rows(Tail(sheets_data), sheets_data[1]))}
    \ {""}

\* The non-empty model numbers of the catalog file.
CatalogModels(file) ==
  {m \in {Get(load_products(file).products[i], "model", "") :
            i \in 1..Len(load_products(file).products)} : m /= ""}

\* Service s ran the latest cycle of all.
RanLatest(s) == cycle[s].n = fetches /\ fetches > 0

\* C1: after a cycle that processed a Change Set, the model numbers of the
\* catalog are exactly the model numbers of the current snapshot.
C1_MergeCorrect ==
  \A s \in 1..MaxServices :
    (RanLatest(s) /\ cycle[s].outcome = "updated") =>
       CatalogModels(products_file) = SheetModels(cycle[s].sheets_data)

\* C2: the catalog never holds two entries with the same non-empty model
\* number.
C2_ModelsUnique ==
  \A i, j \in 1..Len(load_products(products_file).products) :
    (/\ i /= j
     /\ Get(load_products(products_file).products[i], "model", "") /= "") =>
       Get(load_products(products_file).products[i], "model", "")
         /= Get(load_products(products_file).products[j], "model", "")

\* C7: a cycle whose catalog write failed is counted in stats.errors, and its
\* changes are still pending: detecting again on the same snapshot reports
\* them.
C7_SaveFailureRetried ==
  \A s \in 1..MaxServices :
    (RanLatest(s) /\ cycle[s].outcome = "update_failed") =>
       /\ stats[s].errors > 0
       /\ changes_of(metadata[s], cycle[s].sheets_data).has_changes

\* C8: a cycle in which an exception occurred increments stats.errors and is
\* followed by the 60 second sleep.
C8_ErrorCounted ==
  [][\A s \in 1..MaxServices :
       (cycle'[s].n /= cycle[s].n /\ cycle'[s].caught) =>
          /\ stats'[s].errors = stats[s].errors + 1
          /\ sleep'[s] = retry_delay]_vars

IsAppend(previous_data, current_data) ==
  /\ Len(current_data) > Len(previous_data)
  /\ SubSeq(current_data, 1, Len(previous_data)) = previous_data

\* The data rows (1-based, header excluded) in which two snapshots of the same
\* length differ.
DifferingRows(previous_data, current_data) ==
  {i \in 1..(Len(current_data) - 1) : previous_data[i + 1] /= current_data[i + 1]}

\* C3: a second detect_changes call with the same snapshot reports no change
\* and empty new, modified and deleted lists, whatever metadata the detector
\* started from.
C3_Idempotent ==
  (d_previous /= <<>> /\ d_current = d_previous) =>
     /\ ~d_changes.has_changes
     /\ d_changes.new_rows = <<>>
     /\ d_changes.modified_rows = <<>>
     /\ d_changes.deleted_rows = <<>>

C3_Witness ==
  /\ d_previous /= <<>>
  /\ d_current = d_previous
  /\ Len(d_current) > 1
  /\ ~d_changes.has_changes

\* C4: when the current snapshot is the previous one with N >= 1 rows
\* appended, detect_changes reports exactly those N rows as new and no
\* modified and no deleted row.
C4_AppendOnly ==
  (d_previous /= <<>> /\ IsAppend(d_previous, d_current)) =>
     /\ d_changes.has_changes
     /\ d_changes.new_rows = SubSeq(d_current, Len(d_previous) + 1, Len(d_current))
     /\ d_changes.new_row_count = Len(d_current) - Len(d_previous)
     /\ d_changes.modified_rows = <<>>
     /\ d_changes.modified_row_count = 0
     /\ d_changes.deleted_rows = <<>>
     /\ d_changes.deleted_row_count = 0

C4_Witness ==
  /\ Len(d_previous) > 1
  /\ IsAppend(d_previous, d_current)
  /\ Len(d_current) - Len(d_previous) > 1
  /\ d_changes.new_row_count = Len(d_current) - Len(d_previous)

\* C5: when two successive snapshots have the same header and row count and
\* differ in exactly one data row i, detect_changes reports exactly one
\* modified row, with row_index i and the current content of the row, and no
\* new and no deleted row.
C5_OneModified ==
  (/\ d_previous /= <<>>
   /\ Len(d_current) = Len(d_previous)
   /\ d_current[1] = d_previous[1]
   /\ Cardinality(DifferingRows(d_previous, d_current)) = 1) =>
     LET i == CHOOSE j \in DifferingRows(d_previous, d_current) : TRUE
     IN /\ d_changes.has_changes
        /\ Len(d_changes.modified_rows) = 1
        /\ d_changes.modified_row_count = 1
        /\ d_changes.modified_rows[1].row_index = i
        /\ d_changes.modified_rows[1].row_data = d_current[i + 1]
        /\ d_changes.new_rows = <<>>
        /\ d_changes.deleted_rows = <<>>

C5_Witness ==
  /\ Len(d_previous) > 2
  /\ Len(d_current) = Len(d_previous)
  /\ d_current[1] = d_previous[1]
  /\ DifferingRows(d_previous, d_current) = {2}
  /\ d_changes.modified_row_count = 1

\* C6: when the current snapshot is the previous one without its last data
\* row, detect_changes reports exactly one deleted row, the removed last row,
\* and no new and no modified row.
C6_LastRowDeleted ==
  (/\ Len(d_previous) > 1
   /\ d_current = SubSeq(d_previous, 1, Len(d_previous) - 1)) =>
     /\ d_changes.has_changes
     /\ Len(d_changes.deleted_rows) = 1
     /\ d_changes.deleted_row_count = 1
     /\ d_changes.deleted_rows[1].row_index = Len(d_previous) - 1
     /\ d_changes.new_rows = <<>>
     /\ d_changes.modified_rows = <<>>

C6_Witness ==
  /\ Len(d_previous) > 2
  /\ d_current = SubSeq(d_previous, 1, Len(d_previous) - 1)
  /\ d_changes.deleted_row_count = 1

\* C11: at most one polling loop runs cycles at a time: no two services whose
\* loops have both run a cycle have their running flags set together.
C11_SingleLoop ==
  \A s, t \in 1..MaxServices :
    (s /= t /\ cycle[s].n > 0 /\ cycle[t].n > 0) =>
       ~(is_running[s] /\ is_running[t])

\* The types of the messages a cycle broadcast.
BroadcastTypes(c) == {c.broadcast[i].type : i \in 1..Len(c.broadcast)}

\* C12: a cycle broadcasts, and is suspended in the notification callback,
\* only when its catalog update succeeded and the file holds what it wrote;
\* a cycle whose update failed broadcasts nothing.
C12_SaveBeforeNotify ==
  [][\A s \in 1..MaxServices :
       (cycle'[s].n /= cycle[s].n) =>
          /\ (cycle'[s].broadcast /= <<>> \/ pc'[s] = "notify") =>
               /\ cycle'[s].outcome = "updated"
               /\ DOMAIN products_file' /= {}
               /\ products_file'.metadata.last_synchronized = "now"
               /\ \A i \in 1..Len(cycle'[s].new_products) :
                    cycle'[s].new_products[i] \in Range(products_file'.products)
          /\ (cycle'[s].outcome = "update_failed") =>
               /\ cycle'[s].broadcast = <<>>
               /\ pc'[s] /= "notify"]_vars

C12_Witness ==
  \E s \in 1..MaxServices :
    /\ pc[s] = "notify"
    /\ cycle[s].outcome = "updated"
    /\ "new_products" \in BroadcastTypes(cycle[s])

\* C13: a cycle that adds, replaces or removes catalog products broadcasts a
\* new_products, modified_products or deleted_products message whose count is
\* the number of products added, replaced or removed.
C13_ChangesBroadcast ==
  [][\A s \in 1..MaxServices :
       (cycle'[s].n /= cycle[s].n /\ cycle'[s].outcome = "updated") =>
          LET c == cycle'[s]
              removed == Len(load_products(products_file).products)
                           + Len(c.new_products)
                           - Len(load_products(products_file').products)
          IN /\ (c.new_products /= <<>>) =>
                  \E i \in 1..Len(c.broadcast) :
                    /\ c.broadcast[i].type = "new_products"
                    /\ c.broadcast[i].count = Len(c.new_products)
             /\ (c.modified_products /= <<>>) =>
                  \E i \in 1..Len(c.broadcast) :
                    /\ c.broadcast[i].type = "modified_products"
                    /\ c.broadcast[i].count = Len(c.modified_products)
             /\ (removed > 0) =>
                  \E i \in 1..Len(c.broadcast) :
                    /\ c.broadcast[i].type = "deleted_products"
                    /\ c.broadcast[i].count = removed]_vars

\* C14: the first detect_changes of a detector whose metadata could not be
\* loaded (no file, or a failed read) returns a Change Set with has_changes
\* set and every data row of the snapshot as a new row.
C14_LoadFailureAllNew ==
  (d_previous = <<>> /\ d_current /= <<>>) =>
     /\ d_changes.has_changes
     /\ d_changes.new_rows = Tail(d_current)
     /\ d_changes.new_row_count = Len(d_current) - 1
     /\ d_changes.modified_rows = <<>>
     /\ d_changes.deleted_rows = <<>>
     /\ d_metadata.sheet_fingerprint = create_data_fingerprint(d_current)

C14_Witness ==
  /\ d_previous = <<>>
  /\ Len(d_current) > 2
  /\ "data_hash" \notin DOMAIN d_metadata
  /\ d_changes.has_changes
  /\ d_changes.new_row_count = Len(d_current) - 1

\* C15: a successful write of an existing catalog file leaves a backup equal
\* to the file as it was before the write, and update_catalog leaves the file
\* as it was when the backup cannot be written.
C15_BackupBeforeWrite ==
  /\ (call.n > 0 /\ call.success /\ DOMAIN call.before /= {}) =>
        backup_file = call.before
  /\ (call.op = "update_catalog" /\ call.save_result = "error") =>
        products_file = call.before

\* The products of the catalog file as _load_products returns them.
CatalogProducts == load_products(products_file).products

\* C16: the counts of a catalog file written by update_catalog are those
\* _update_metadata_stats computes again from the reloaded file: the number of
\* products and the distinct non-empty categories.
C16_MetadataRoundTrip ==
  (call.op \in {"update_catalog", "poll"} /\ call.success) =>
     /\ update_metadata_stats(load_products(products_file)).metadata.total_products
          = products_file.metadata.total_products
     /\ update_metadata_stats(load_products(products_file)).metadata.categories
          = products_file.metadata.categories
     /\ update_metadata_stats(load_products(products_file)).metadata.categories_count
          = products_file.metadata.categories_count
     /\ products_file.metadata.total_products = Len(CatalogProducts)
     /\ products_file.metadata.categories_count =
          Cardinality({Get(CatalogProducts[i], "category", "") :
                         i \in 1..Len(CatalogProducts)} \ {""})

C16_Witness ==
  /\ call.op = "update_catalog"
  /\ call.success
  /\ Len(CatalogProducts) = 2
  /\ \E i \in 1..2 : Get(CatalogProducts[i], "category", "") = ""
  /\ products_file.metadata.categories_count = 1

\* C18: after a cycle that handled a Change Set no catalog entry has a model
\* number that is not a model number of the snapshot, a snapshot of the header
\* row alone included.
C18_OrphansRemoved ==
  \A s \in 1..MaxServices :
    (RanLatest(s) /\ cycle[s].outcome \in {"updated", "nothing_to_update"}) =>
       CatalogModels(products_file)
         \subseteq Range(current_sheet_models_of(Tail(cycle[s].sheets_data)))

\* C19: a cycle on a sheet whose columns are in another order parses the same
\* products and leaves the same catalog file.
C19_ColumnOrderIrrelevant ==
  (call.op = "poll") =>
     /\ call.permuted[1].new_products = call.new_products
     /\ call.permuted[1].modified_products = call.modified_products
     /\ call.permuted[1].success = call.success
     /\ call.permuted[1].file = products_file

C17_WriteBackFails ==
  /\ (sync.op = "batch_update_cells") => ~sync.result
  /\ (sync.op = "execute_sync" /\ sync.updates /= <<>>) =>
        /\ ~sync.applied
        /\ ~sync.result

\* The data hash of the snapshot is the one the metadata md holds.
HashUnchanged(md, sheets_data) ==
  create_data_fingerprint(sheets_data).data_hash
    = Get(Get(md, "sheet_fingerprint", EmptyDict), "data_hash", None)

\* C21: a cycle whose snapshot has the data hash of the stored fingerprint
\* ends at the no-changes return: the catalog file and the backup are left as
\* they were, nothing is broadcast and the notification callback is not
\* entered.
C21_UnchangedHashNoEffect ==
  [][\A s \in 1..MaxServices :
       (/\ cycle'[s].n /= cycle[s].n
        /\ cycle'[s].sheets_data /= <<>>
        /\ HashUnchanged(metadata[s], cycle'[s].sheets_data)) =>
          /\ cycle'[s].outcome = "no_changes"
          /\ products_file' = products_file
          /\ backup_file' = backup_file
          /\ cycle'[s].broadcast = <<>>
          /\ cycle'[s].new_products = <<>>
          /\ cycle'[s].modified_products = <<>>
          /\ pc'[s] /= "notify"]_vars

C21_Witness ==
  \E s \in 1..MaxServices :
    /\ cycle[s].outcome = "no_changes"
    /\ Len(cycle[s].sheets_data) > 1
    /\ DOMAIN products_file /= {}
    /\ Len(products_file.products) > 0

\* The rows of a batch that are converted to a product: the conversion does
\* not raise and the row has a product name.
ConvertedRows(rows, headers) ==
  SelectSeq(rows, LAMBDA row :
    ~conversion_raises(row) /\ create_product_from_row(row, headers) /= <<>>)

\* C22: process_new_rows and process_modified_rows return, in input order,
\* exactly one product for every row whose conversion neither raises nor
\* yields no product; the other rows are skipped and the rows after them are
\* still converted.
C22_BadRowsSkipped ==
  (call.op = "process_rows") =>
     LET kept == ConvertedRows(call.rows, call.headers)
     IN /\ Len(call.new_products) = Len(kept)
        /\ Len(call.modified_products) = Len(kept)
        /\ \A k \in 1..Len(kept) :
             /\ call.new_products[k] = create_product_from_row(kept[k], call.headers)[1]
             /\ clean_product_of(call.modified_products[k])
                  = create_product_from_row(kept[k], call.headers)[1]
             /\ call.rows[call.modified_products[k]["_modification_info"].row_index]
                  = kept[k]

C22_Witness ==
  /\ call.op = "process_rows"
  /\ Len(call.rows) = 3
  /\ call.rows[1] = None
  /\ call.rows[2] = <<"M2", " ">>
  /\ call.rows[3] = <<"M1", "A", "C1">>
  /\ Len(call.new_products) = 1
  /\ call.new_products[1].model = "M1"
  /\ Len(call.modified_products) = 1

\* C23: in the Change Set of every detect_changes call has_changes is set if
\* and only if one of new_rows, modified_rows and deleted_rows is not empty.
C23_HasChangesIffRows ==
  (d_current /= <<>>) =>
     (d_changes.has_changes <=>
        (\/ d_changes.new_rows /= <<>>
         \/ d_changes.modified_rows /= <<>>
         \/ d_changes.deleted_rows /= <<>>))

\* The 1-based data row numbers of the new rows of a Change Set: the rows
\* after the previous row count.
NewRowIndices(changes) ==
  {changes.previous_rows + k : k \in 1..Len(changes.new_rows)}

RowIndices(rows) == {rows[k].row_index : k \in 1..Len(rows)}

\* C24: in every Change Set the three counts are the lengths of the three
\* lists, the row numbers of the new, modified and deleted rows are pairwise
\* disjoint, the new and modified ones lie in 1..total_rows and the deleted
\* ones are greater than total_rows.
C24_CountsAndIndices ==
  (d_current /= <<>>) =>
     /\ d_changes.new_row_count = Len(d_changes.new_rows)
     /\ d_changes.modified_row_count = Len(d_changes.modified_rows)
     /\ d_changes.deleted_row_count = Len(d_changes.deleted_rows)
     /\ d_changes.total_rows = Len(d_current) - 1
     /\ \A k \in 1..Len(d_changes.new_rows) :
          /\ d_changes.previous_rows + k <= d_changes.total_rows
          /\ d_changes.new_rows[k] = d_current[d_changes.previous_rows + k + 1]
     /\ Cardinality(RowIndices(d_changes.modified_rows)) = Len(d_changes.modified_rows)
     /\ Cardinality(RowIndices(d_changes.deleted_rows)) = Len(d_changes.deleted_rows)
     /\ NewRowIndices(d_changes) \cap RowIndices(d_changes.modified_rows) = {}
     /\ NewRowIndices(d_changes) \cap RowIndices(d_changes.deleted_rows) = {}
     /\ RowIndices(d_changes.modified_rows) \cap RowIndices(d_changes.deleted_rows) = {}
     /\ NewRowIndices(d_changes) \cup RowIndices(d_changes.modified_rows)
          \subseteq 1..d_changes.total_rows
     /\ \A i \in RowIndices(d_changes.deleted_rows) : i > d_changes.total_rows

C24_Witness ==
  /\ Len(d_previous) > 1
  /\ Len(d_changes.new_rows) > 0
  /\ Len(d_changes.modified_rows) > 0
  /\ d_changes.new_row_count + d_changes.modified_row_count = d_changes.total_rows

\* C25: when a broadcast is over, every connection that was in
\* active_connections when it began and whose client has not gone away (its
\* send succeeds, and no handler removes it) has been sent the message.
C25_BroadcastReachesAll ==
  (broadcasting.pc = "done") =>
     \A connection \in Range(broadcasting.at_start) \ broken :
       connection \in broadcasting.delivered

\* C26: a cycle whose fetch returns no rows at all leaves the detector's
\* metadata, the metadata file, the catalog file and the backup as they were
\* and notifies nothing, so the next snapshot is compared with the
\* fingerprint of the last snapshot that had rows.
C26_EmptyFetchNoEffect ==
  [][\A s \in 1..MaxServices :
       (/\ cycle'[s].n /= cycle[s].n
        /\ cycle'[s].sheets_data = <<>>
        /\ ~cycle'[s].caught) =>
          /\ metadata'[s] = metadata[s]
          /\ metadata_file' = metadata_file
          /\ products_file' = products_file
          /\ backup_file' = backup_file
          /\ cycle'[s].broadcast = <<>>
          /\ pc'[s] /= "notify"
          /\ \A sheets_data \in Snapshots :
               changes_of(metadata'[s], sheets_data) = changes_of(metadata[s], sheets_data)]_vars

C26_Witness ==
  \E s \in 1..MaxServices :
    /\ cycle[s].outcome = "no_data"
    /\ "sheet_fingerprint" \in DOMAIN metadata[s]
    /\ Get(metadata[s].sheet_fingerprint, "row_count", 0) > 0
    /\ metadata_file = metadata[s]
    /\ DOMAIN products_file /= {}

\* The number of modified products that replace an entry of the product list.
ReplacedCount(products, modified_products) ==
  Cardinality({k \in 1..Len(modified_products) :
                 /\ Get(modified_products[k], "model", "") /= ""
                 /\ matches_of(products, Get(modified_products[k], "model", "")) /= {}})

\* C27: in every cycle the counters products_added, products_modified and
\* products_deleted grow by the numbers of products the cycle appended to,
\* replaced in and removed from the catalog file: by nothing when the file
\* was not written.
C27_CountersMatchCatalog ==
  [][\A s \in 1..MaxServices :
       (cycle'[s].n /= cycle[s].n) =>
          LET c == cycle'[s]
              written == c.outcome = "updated"
              before == load_products(products_file).products
              after == load_products(products_file').products
          IN /\ stats'[s].products_added - stats[s].products_added
                  = IF written THEN Len(c.new_products) ELSE 0
             /\ stats'[s].products_modified - stats[s].products_modified
                  = IF written
                      THEN ReplacedCount(before \o c.new_products, c.modified_products)
                      ELSE 0
             /\ stats'[s].products_deleted - stats[s].products_deleted
                  = IF written
                      THEN Len(before) + Len(c.new_products) - Len(after)
                      ELSE 0]_vars

\* The steps of the pipeline in the order run_pipeline runs them.
PipelineOrder == <<"prerequisites", "step_1", "step_2", "step_3", "step_4", "step_5">>

\* C28: a run of the pipeline returns True, and executes the assignment of
\* pipeline_stats['success'], exactly when prerequisites and steps 1 to 3
\* returned True; the steps start in their order and none starts after one of
\* the first four has failed; what steps 4 and 5 return does not change the
\* result; every run writes one pipeline report.
C28_PipelineResult ==
  (pipeline_stats.runs > 0) =>
     LET p == pipeline_stats
         o == pipeline_stats.outcomes
         core == /\ o.prerequisites
                 /\ o.step_1 = "ok"
                 /\ o.step_2 = "ok"
                 /\ o.step_3 = "ok"
         failed == {k \in 1..4 : IF k = 1 THEN ~o.prerequisites
                                 ELSE o[PipelineOrder[k]] /= "ok"}
     IN /\ p.returned = core
        /\ p.success_set = core
        /\ core => p.success
        /\ p.reports = p.runs
        /\ \A i \in 1..Len(p.started) :
             \E k \in i..6 :
               /\ p.started[i] = PipelineOrder[k]
               /\ \A j \in 1..(i - 1) :
                    \E a \in 1..(k - 1) : p.started[j] = PipelineOrder[a]
        /\ ~core => p.started = SubSeq(PipelineOrder, 1,
                                       CHOOSE k \in failed : \A m \in failed : k <= m)
        /\ core => /\ SubSeq(p.started, 1, 4) = SubSeq(PipelineOrder, 1, 4)
                   /\ ("step_4" \in Range(p.started)) = ~p.skip_cleanup
                   /\ ("step_5" \in Range(p.started)) = ~p.skip_validation

C28_Witness ==
  /\ pipeline_stats.runs = 2
  /\ pipeline_stats.returned
  /\ pipeline_stats.started = PipelineOrder
  /\ pipeline_stats.outcomes.step_4 = "raised"
  /\ pipeline_stats.outcomes.step_5 = "errors"
  /\ pipeline_stats.errors = 3
  /\ pipeline_stats.validation_errors = 1
  /\ pipeline_stats.reports = 2

\* C29: cleanup leaves every essential file in the data directory as it was
\* and archives none, whatever the duplicates, the modification times and the
\* flags; with dry_run it leaves the whole directory as it was and reports no
\* file archived and none removed.
C29_EssentialFilesKept ==
  (cleanup_stats.runs > 0) =>
     /\ \A n \in essential_files \cap DOMAIN cleanup_stats.before :
          /\ n \in DOMAIN data_dir
          /\ data_dir[n] = cleanup_stats.before[n]
          /\ n \notin cleanup_stats.archived
     /\ cleanup_stats.dry_run =>
          /\ data_dir = cleanup_stats.before
          /\ cleanup_stats.archived = {}
          /\ cleanup_stats.files_archived = 0
          /\ cleanup_stats.files_removed = 0

C29_Witness ==
  /\ cleanup_stats.runs > 0
  /\ ~cleanup_stats.dry_run
  /\ DOMAIN cleanup_stats.before = DataFiles
  /\ cleanup_stats.before["products.json"].content_hash = "h1"
  /\ cleanup_stats.before["export.json"].content_hash = "h1"
  /\ cleanup_stats.before["products.json"].modified
       < cleanup_stats.before["export.json"].modified
  /\ cleanup_stats.files_archived > 0
  /\ DOMAIN data_dir = DataFiles \ {"products_backup.json"}

RECURSIVE ModelNumbers(_)
ModelNumbers(products) ==
  IF products = <<>> THEN <<>>
  ELSE <<IF "model" \in DOMAIN Head(products) THEN Head(products).model
         ELSE Head(products).model_number>> \o ModelNumbers(Tail(products))

\* C30: whenever synchronize returns True, products.json holds exactly one
\* entry for every product of every category of the enhanced file: as many
\* entries as products, with the same model numbers in the same order, and
\* validate_synchronization, if it was called, found no count mismatch.
C30_TrueMeansAllProducts ==
  (synchronized.runs > 0 /\ synchronized.returned) =>
     /\ synchronized.written
     /\ ModelNumbers(synchronized.products_json)
          = ModelNumbers(products_of(synchronized.enhanced_data))
     /\ synchronized.validation /= "issues"

====
